---- MODULE Spec2Model ----
(***************************************************************************)
(* B-Tree and B+-Tree engines of src/core/btree.py and                     *)
(* src/core/bplustree.py as a state machine.                               *)
(*                                                                         *)
(* The nodes live in a heap (object identity -> node record); the tree     *)
(* objects hold the root (and, B+-Tree, first_leaf) as references into the *)
(* heap.  Every public operation (insert, delete) is one action that runs  *)
(* the whole call, recursion included.  Lists are Python lists: the        *)
(* operators below take and return 0-based positions, as the code does.    *)
(***************************************************************************)
EXTENDS Integers, Sequences, FiniteSets, TLC

\* Keys offered to the B-Tree are 1..MaxKey: seven keys are the fewest that
\* give a B-Tree of fanout 3 three levels.
MaxKey == 7
\* insert is offered only while the heap holds fewer than MaxNodes nodes.
MaxNodes == 8
\* Fanouts the trees are constructed with (supported range is 3..10).
Fanouts == {3, 4}
Variants == {"BTree", "BPlusTree"}
BTreeKeys == 1..MaxKey
\* Keys offered to the B+-Tree: five keys are the fewest that give a
\* B+-Tree of fanout 3 three levels; its reachable trees include ones with
\* duplicate keys, and a sixth key multiplies them more than tenfold.
BPlusTreeKeys == 1..5
KeySet == BTreeKeys \cup BPlusTreeKeys
\* Python's None for a node reference; node identities are positive.
NoNode == 0

\* tracer is a Tracer object.  The calls made on it are the actions of
\* SpecTracer; the tree specifications make none (what a tree operation
\* emits is computed per call, from the tree it runs on).
VARIABLES variant, fanout_n, heap, root, first_leaf, last, tracer
vars == <<variant, fanout_n, heap, root, first_leaf, last, tracer>>

-----------------------------------------------------------------------------
(* Python list primitives, 0-based *)

\* lst[i]
At(s, i) == s[i + 1]
\* lst[a:b]
Slice(s, a, b) == IF b <= a THEN <<>> ELSE SubSeq(s, a + 1, b)
\* lst[a:]
SliceFrom(s, a) == Slice(s, a, Len(s))
\* lst.insert(pos, x)
ListInsert(s, pos, x) == Slice(s, 0, pos) \o <<x>> \o SliceFrom(s, pos)
\* lst.pop(i): the list that remains
ListRemove(s, i) == Slice(s, 0, i) \o SliceFrom(s, i + 1)
\* lst[i] = x
ListSet(s, i, x) == [s EXCEPT ![i + 1] = x]
\* valid position of a list
InRange(s, i) == 0 <= i /\ i < Len(s)

\* for i, k in enumerate(keys): if key < k: return i ... return len(keys)
FirstGreater(keys, key) ==
    IF \E i \in 1..Len(keys) : key < keys[i]
    THEN (CHOOSE i \in 1..Len(keys) :
              key < keys[i] /\ \A j \in 1..(i - 1) : ~(key < keys[j])) - 1
    ELSE Len(keys)

-----------------------------------------------------------------------------
(* Node records and the capacity rules *)

max_keys == fanout_n - 1
min_keys == ((fanout_n + 1) \div 2) - 1

\* BTreeNode() / BPlusTreeNode(): keys = [], children = [], next_leaf = None
NewNode(leaf) ==
    [keys |-> <<>>, children |-> <<>>, is_leaf |-> leaf, next_leaf |-> NoNode]

\* Identity of a newly allocated object: one no live object has.
NewId(h) == CHOOSE i \in 1..(Cardinality(DOMAIN h) + 1) : i \notin DOMAIN h

\* h with node n bound to record r (n may be new)
Bind(h, n, r) == [x \in (DOMAIN h) \cup {n} |-> IF x = n THEN r ELSE h[x]]

\* An operation in progress: the heap so far, and whether an IndexError
\* has been raised (after which nothing more of the operation runs).
Running(h) == [h |-> h, raised |-> FALSE]
Raise(m) == [m EXCEPT !.raised = TRUE]

\* Node objects have no identity beyond their references: after an
\* operation the objects still referenced from the tree object (through
\* children and next_leaf, from root and first_leaf) are kept, the others
\* are reclaimed, and the kept ones are named 1..n in the order a walk from
\* the root meets them.  Live(h, out, i) is that walk.
RECURSIVE Live(_, _, _)
Live(h, out, i) ==
    IF i > Len(out) THEN out
    ELSE LET n == out[i]
             refs == h[n].children \o <<h[n].next_leaf>>
             fresh == SelectSeq(refs,
                         LAMBDA x : x # NoNode /\ x \in DOMAIN h
                                    /\ \A j \in 1..Len(out) : out[j] # x)
             \* a reference met twice is kept once
             once == [j \in 1..Len(fresh) |->
                         IF \E k \in 1..(j - 1) : fresh[k] = fresh[j]
                         THEN NoNode ELSE fresh[j]]
         IN  Live(h, out \o SelectSeq(once, LAMBDA x : x # NoNode), i + 1)

Compact(h, r, f) ==
    LET start == IF f = NoNode \/ f = r THEN <<r>> ELSE <<r, f>>
        order == Live(h, start, 1)
        name(x) == IF x = NoNode THEN NoNode
                   ELSE CHOOSE j \in 1..Len(order) : order[j] = x
    IN  [h |-> [j \in 1..Len(order) |->
                  [h[order[j]] EXCEPT
                     !.children = [c \in 1..Len(@) |-> name(@[c])],
                     !.next_leaf = name(@)]],
         root |-> name(r),
         first_leaf |-> name(f)]

-----------------------------------------------------------------------------
(* B-Tree: src/core/btree.py *)

\* BTreeNode.is_leaf: a node without children
BTree_is_leaf(h, n) == Len(h[n].children) = 0

\* The key scan of search and _delete_recursive: the position of key in
\* keys, or -1; the scan stops at the first key that is >= key.
BTree_scan(keys, key) ==
    LET stops == {i \in 1..Len(keys) : key = keys[i] \/ key < keys[i]}
    IN  IF stops = {} THEN -1
        ELSE LET i == CHOOSE x \in stops : \A y \in stops : x <= y
             IN  IF keys[i] = key THEN i - 1 ELSE -1

BTree_find_insert_pos(keys, key) == FirstGreater(keys, key)
BTree_find_child_index(keys, key) == FirstGreater(keys, key)

\* BTree.search from node downward; path is the list of node ids visited.
RECURSIVE BTree_search_from(_, _, _, _)
BTree_search_from(h, node, key, path) ==
    LET p == Append(path, node)
        found_index == BTree_scan(h[node].keys, key)
        child_index == FirstGreater(h[node].keys, key)
    IN  IF found_index # -1
        THEN [found |-> TRUE, node_id |-> node, index |-> found_index,
              path |-> p, raised |-> FALSE]
        ELSE IF BTree_is_leaf(h, node)
        THEN [found |-> FALSE, node_id |-> node, index |-> -1,
              path |-> p, raised |-> FALSE]
        ELSE IF ~InRange(h[node].children, child_index)
        THEN [found |-> FALSE, node_id |-> node, index |-> -1,
              path |-> p, raised |-> TRUE]
        ELSE BTree_search_from(h, At(h[node].children, child_index), key, p)

BTree_search(h, r, key) == BTree_search_from(h, r, key, <<>>)

\* Mutant for C6: the split moves the keys but leaves every child with the
\* left half, so the new right node is a leaf one level too high.
BTree_split_child_keeps_children(m, parent, child_index) ==
    IF m.raised THEN m
    ELSE IF ~InRange(m.h[parent].children, child_index) THEN Raise(m)
    ELSE
    LET h == m.h
        full_child == At(h[parent].children, child_index)
        fc == h[full_child]
        mid == Len(fc.keys) \div 2
    IN  IF ~InRange(fc.keys, mid) THEN Raise(m)
        ELSE
        LET new_id == NewId(h)
            new_child == [NewNode(TRUE) EXCEPT !.keys = SliceFrom(fc.keys, mid + 1)]
            left == [fc EXCEPT !.keys = Slice(fc.keys, 0, mid)]
            h1 == Bind(Bind(h, new_id, new_child), full_child, left)
            par == [h1[parent] EXCEPT
                      !.keys = ListInsert(@, child_index, At(fc.keys, mid)),
                      !.children = ListInsert(@, child_index + 1, new_id)]
        IN  [m EXCEPT !.h = Bind(h1, parent, par)]

\* BTree._split_child(parent, child_index)
BTree_split_child(m, parent, child_index) ==
    IF m.raised THEN m
    ELSE IF ~InRange(m.h[parent].children, child_index) THEN Raise(m)
    ELSE
    LET h == m.h
        full_child == At(h[parent].children, child_index)
        fc == h[full_child]
        mid == Len(fc.keys) \div 2
    IN  IF ~InRange(fc.keys, mid) THEN Raise(m)
        ELSE
        LET promoted_key == At(fc.keys, mid)
            new_id == NewId(h)
            internal == ~BTree_is_leaf(h, full_child)
            new_child == [NewNode(~internal) EXCEPT
                            !.keys = SliceFrom(fc.keys, mid + 1),
                            !.children = IF internal
                                         THEN SliceFrom(fc.children, mid + 1)
                                         ELSE <<>>]
            left == [fc EXCEPT
                       !.keys = Slice(fc.keys, 0, mid),
                       !.children = IF internal
                                    THEN Slice(fc.children, 0, mid + 1)
                                    ELSE fc.children]
            h1 == Bind(Bind(h, new_id, new_child), full_child, left)
            par == [h1[parent] EXCEPT
                      !.keys = ListInsert(@, child_index, promoted_key),
                      !.children = ListInsert(@, child_index + 1, new_id)]
        IN  [m EXCEPT !.h = Bind(h1, parent, par)]

\* BTree._insert_recursive(node, key)
RECURSIVE BTree_insert_recursive(_, _, _)
BTree_insert_recursive(m, node, key) ==
    IF m.raised THEN m
    ELSE
    LET n == m.h[node] IN
    IF BTree_is_leaf(m.h, node)
    THEN LET pos == BTree_find_insert_pos(n.keys, key)
         IN  [m EXCEPT !.h[node].keys = ListInsert(n.keys, pos, key)]
    ELSE LET child_index == BTree_find_child_index(n.keys, key) IN
         IF ~InRange(n.children, child_index) THEN Raise(m)
         ELSE LET m1 == BTree_insert_recursive(m, At(n.children, child_index), key)
              IN  IF m1.raised THEN m1
                  ELSE IF Len(m1.h[At(m1.h[node].children, child_index)].keys) > max_keys
                  THEN BTree_split_child(m1, node, child_index)
                  ELSE m1

\* BTree.insert(key): [h, root, ret, raised]
BTree_insert(h, r, key) ==
    LET result == BTree_search(h, r, key) IN
    IF result.raised THEN [h |-> h, root |-> r, ret |-> FALSE, raised |-> TRUE]
    ELSE IF result.found THEN [h |-> h, root |-> r, ret |-> FALSE, raised |-> FALSE]
    ELSE
    LET m1 == BTree_insert_recursive(Running(h), r, key) IN
    IF m1.raised THEN [h |-> m1.h, root |-> r, ret |-> FALSE, raised |-> TRUE]
    ELSE IF Len(m1.h[r].keys) > max_keys
    THEN LET new_root == NewId(m1.h)
             h2 == Bind(m1.h, new_root, [NewNode(FALSE) EXCEPT !.children = <<r>>])
             m3 == BTree_split_child(Running(h2), new_root, 0)
         IN  [h |-> m3.h, root |-> new_root, ret |-> ~m3.raised, raised |-> m3.raised]
    ELSE [h |-> m1.h, root |-> r, ret |-> TRUE, raised |-> FALSE]

\* BTree._get_predecessor(node, key_idx): [raised, key]
RECURSIVE BTree_rightmost_key(_, _)
BTree_rightmost_key(h, current) ==
    IF ~BTree_is_leaf(h, current)
    THEN BTree_rightmost_key(h, At(h[current].children, Len(h[current].children) - 1))
    ELSE IF Len(h[current].keys) = 0 THEN [raised |-> TRUE, key |-> 0]
    ELSE [raised |-> FALSE, key |-> At(h[current].keys, Len(h[current].keys) - 1)]

BTree_get_predecessor(h, node, key_idx) ==
    IF ~InRange(h[node].children, key_idx) THEN [raised |-> TRUE, key |-> 0]
    ELSE BTree_rightmost_key(h, At(h[node].children, key_idx))

\* BTree._redistribute_from_left(parent, child_idx)
BTree_redistribute_from_left(m, parent, child_idx) ==
    LET h == m.h
        child == At(h[parent].children, child_idx)
        left_sibling == At(h[parent].children, child_idx - 1)
        h1 == [h EXCEPT ![child].keys = ListInsert(@, 0, At(h[parent].keys, child_idx - 1))]
        lk == h[left_sibling].keys
        h2 == [h1 EXCEPT ![parent].keys = ListSet(@, child_idx - 1, At(lk, Len(lk) - 1)),
                         ![left_sibling].keys = Slice(lk, 0, Len(lk) - 1)]
        lc == h[left_sibling].children
        h3 == [h2 EXCEPT ![child].children = ListInsert(@, 0, At(lc, Len(lc) - 1)),
                         ![left_sibling].children = Slice(lc, 0, Len(lc) - 1)]
    IN  IF ~InRange(h[parent].keys, child_idx - 1) THEN Raise(m)
        ELSE IF Len(lk) = 0 THEN Raise([m EXCEPT !.h = h1])
        ELSE IF BTree_is_leaf(h, child) THEN [m EXCEPT !.h = h2]
        ELSE IF Len(lc) = 0 THEN Raise([m EXCEPT !.h = h2])
        ELSE [m EXCEPT !.h = h3]

\* BTree._redistribute_from_right(parent, child_idx)
BTree_redistribute_from_right(m, parent, child_idx) ==
    LET h == m.h
        child == At(h[parent].children, child_idx)
        right_sibling == At(h[parent].children, child_idx + 1)
        h1 == [h EXCEPT ![child].keys = Append(@, At(h[parent].keys, child_idx))]
        rk == h[right_sibling].keys
        h2 == [h1 EXCEPT ![parent].keys = ListSet(@, child_idx, At(rk, 0)),
                         ![right_sibling].keys = ListRemove(rk, 0)]
        rc == h[right_sibling].children
        h3 == [h2 EXCEPT ![child].children = Append(@, At(rc, 0)),
                         ![right_sibling].children = ListRemove(rc, 0)]
    IN  IF ~InRange(h[parent].keys, child_idx) THEN Raise(m)
        ELSE IF Len(rk) = 0 THEN Raise([m EXCEPT !.h = h1])
        ELSE IF BTree_is_leaf(h, child) THEN [m EXCEPT !.h = h2]
        ELSE IF Len(rc) = 0 THEN Raise([m EXCEPT !.h = h2])
        ELSE [m EXCEPT !.h = h3]

\* BTree._merge_with_left(parent, child_idx)
BTree_merge_with_left(m, parent, child_idx) ==
    LET h == m.h
        child == At(h[parent].children, child_idx)
        left_sibling == At(h[parent].children, child_idx - 1)
        separator == At(h[parent].keys, child_idx - 1)
    IN  IF ~InRange(h[parent].keys, child_idx - 1) THEN Raise(m)
        ELSE [m EXCEPT !.h =
                [h EXCEPT ![parent].keys = ListRemove(@, child_idx - 1),
                          ![parent].children = ListRemove(@, child_idx),
                          ![left_sibling].keys = Append(@, separator) \o h[child].keys,
                          ![left_sibling].children =
                              IF BTree_is_leaf(h, child) THEN @
                              ELSE @ \o h[child].children]]

\* BTree._merge_with_right(parent, child_idx)
BTree_merge_with_right(m, parent, child_idx) ==
    LET h == m.h
        child == At(h[parent].children, child_idx)
        right_sibling == At(h[parent].children, child_idx + 1)
        separator == At(h[parent].keys, child_idx)
    IN  IF ~InRange(h[parent].children, child_idx + 1) THEN Raise(m)
        ELSE IF ~InRange(h[parent].keys, child_idx) THEN Raise(m)
        ELSE [m EXCEPT !.h =
                [h EXCEPT ![parent].keys = ListRemove(@, child_idx),
                          ![parent].children = ListRemove(@, child_idx + 1),
                          ![child].keys = Append(@, separator) \o h[right_sibling].keys,
                          ![child].children =
                              IF BTree_is_leaf(h, child) THEN @
                              ELSE @ \o h[right_sibling].children]]

\* Mutant for C7: the underflow is detected but not repaired.
BTree_handle_underflow_skipped(m, parent, child_idx) == m

\* Mutant for C25: the right sibling is asked for a key before the left.
BTree_handle_underflow_right_first(m, parent, child_idx) ==
    IF m.raised THEN m
    ELSE
    LET h == m.h
        ch == h[parent].children
        canLeft == child_idx > 0
                   /\ Len(h[At(ch, child_idx - 1)].keys) > min_keys
        canRight == child_idx < Len(ch) - 1
                    /\ Len(h[At(ch, child_idx + 1)].keys) > min_keys
    IN  IF canRight THEN BTree_redistribute_from_right(m, parent, child_idx)
        ELSE IF canLeft THEN BTree_redistribute_from_left(m, parent, child_idx)
        ELSE IF child_idx > 0 THEN BTree_merge_with_left(m, parent, child_idx)
        ELSE BTree_merge_with_right(m, parent, child_idx)

\* BTree._handle_underflow(parent, child_idx)
BTree_handle_underflow(m, parent, child_idx) ==
    IF m.raised THEN m
    ELSE
    LET h == m.h
        ch == h[parent].children
        canLeft == child_idx > 0
                   /\ Len(h[At(ch, child_idx - 1)].keys) > min_keys
        canRight == child_idx < Len(ch) - 1
                    /\ Len(h[At(ch, child_idx + 1)].keys) > min_keys
    IN  IF canLeft THEN BTree_redistribute_from_left(m, parent, child_idx)
        ELSE IF canRight THEN BTree_redistribute_from_right(m, parent, child_idx)
        ELSE IF child_idx > 0 THEN BTree_merge_with_left(m, parent, child_idx)
        ELSE BTree_merge_with_right(m, parent, child_idx)

\* BTree._delete_recursive(node, key)
RECURSIVE BTree_delete_recursive(_, _, _)
BTree_delete_recursive(m, node, key) ==
    IF m.raised THEN m
    ELSE
    LET h == m.h
        n == h[node]
        key_idx == BTree_scan(n.keys, key)
    IN
    IF key_idx # -1
    THEN IF BTree_is_leaf(h, node)
         THEN [m EXCEPT !.h[node].keys = ListRemove(n.keys, key_idx)]
         ELSE LET pred == BTree_get_predecessor(h, node, key_idx) IN
              IF pred.raised THEN Raise(m)
              ELSE
              LET m1 == [m EXCEPT !.h[node].keys = ListSet(n.keys, key_idx, pred.key)]
                  m2 == BTree_delete_recursive(m1, At(n.children, key_idx), pred.key)
              IN  IF m2.raised THEN m2
                  ELSE IF Len(m2.h[At(m2.h[node].children, key_idx)].keys) < min_keys
                  THEN BTree_handle_underflow(m2, node, key_idx)
                  ELSE m2
    ELSE IF BTree_is_leaf(h, node) THEN m
         ELSE LET child_idx == FirstGreater(n.keys, key) IN
              IF ~InRange(n.children, child_idx) THEN Raise(m)
              ELSE
              LET m2 == BTree_delete_recursive(m, At(n.children, child_idx), key)
              IN  IF m2.raised THEN m2
                  ELSE IF Len(m2.h[At(m2.h[node].children, child_idx)].keys) < min_keys
                  THEN BTree_handle_underflow(m2, node, child_idx)
                  ELSE m2

\* Mutant for C16: the emptied root is not replaced by its only child.
BTree_delete_keeps_root(h, r, key) ==
    LET result == BTree_search(h, r, key) IN
    IF result.raised THEN [h |-> h, root |-> r, ret |-> FALSE, raised |-> TRUE]
    ELSE IF ~result.found THEN [h |-> h, root |-> r, ret |-> FALSE, raised |-> FALSE]
    ELSE
    LET m1 == BTree_delete_recursive(Running(h), r, key) IN
    IF m1.raised THEN [h |-> m1.h, root |-> r, ret |-> FALSE, raised |-> TRUE]
    ELSE [h |-> m1.h, root |-> r, ret |-> TRUE, raised |-> FALSE]

\* BTree.delete(key): [h, root, ret, raised]
BTree_delete(h, r, key) ==
    LET result == BTree_search(h, r, key) IN
    IF result.raised THEN [h |-> h, root |-> r, ret |-> FALSE, raised |-> TRUE]
    ELSE IF ~result.found THEN [h |-> h, root |-> r, ret |-> FALSE, raised |-> FALSE]
    ELSE
    LET m1 == BTree_delete_recursive(Running(h), r, key) IN
    IF m1.raised THEN [h |-> m1.h, root |-> r, ret |-> FALSE, raised |-> TRUE]
    ELSE IF Len(m1.h[r].keys) = 0 /\ ~BTree_is_leaf(m1.h, r)
    THEN [h |-> m1.h, root |-> At(m1.h[r].children, 0), ret |-> TRUE, raised |-> FALSE]
    ELSE [h |-> m1.h, root |-> r, ret |-> TRUE, raised |-> FALSE]

-----------------------------------------------------------------------------
(* B+-Tree: src/core/bplustree.py *)

\* BPlusTreeNode.is_leaf: the flag fixed at creation
BPlusTree_is_leaf(h, n) == h[n].is_leaf

\* The leaf scan of search and _delete_internal: first position holding
\* key, or -1 (the whole leaf is scanned).
BPlusTree_leaf_scan(keys, key) ==
    LET hits == {i \in 1..Len(keys) : keys[i] = key}
    IN  IF hits = {} THEN -1
        ELSE (CHOOSE x \in hits : \A y \in hits : x <= y) - 1

BPlusTree_find_insert_pos(keys, key) == FirstGreater(keys, key)
BPlusTree_find_child_index(keys, key) == FirstGreater(keys, key)

\* BPlusTree.search from node downward
RECURSIVE BPlusTree_search_from(_, _, _, _)
BPlusTree_search_from(h, node, key, path) ==
    LET p == Append(path, node)
        i == BPlusTree_leaf_scan(h[node].keys, key)
        child_index == FirstGreater(h[node].keys, key)
    IN  IF BPlusTree_is_leaf(h, node)
        THEN [found |-> i # -1, node_id |-> node, index |-> i,
              path |-> p, raised |-> FALSE]
        ELSE IF ~InRange(h[node].children, child_index)
        THEN [found |-> FALSE, node_id |-> node, index |-> -1,
              path |-> p, raised |-> TRUE]
        ELSE BPlusTree_search_from(h, At(h[node].children, child_index), key, p)

BPlusTree_search(h, r, key) == BPlusTree_search_from(h, r, key, <<>>)

\* BPlusTree._split_child(parent, child_index)
BPlusTree_split_child(m, parent, child_index) ==
    IF m.raised THEN m
    ELSE IF ~InRange(m.h[parent].children, child_index) THEN Raise(m)
    ELSE
    LET h == m.h
        full_child == At(h[parent].children, child_index)
        fc == h[full_child]
        mid == Len(fc.keys) \div 2
    IN  IF ~InRange(fc.keys, mid) THEN Raise(m)
        ELSE
        LET promoted_key == At(fc.keys, mid)
            new_id == NewId(h)
            new_child ==
                IF fc.is_leaf
                THEN [NewNode(TRUE) EXCEPT
                        !.keys = SliceFrom(fc.keys, mid),
                        !.next_leaf = fc.next_leaf]
                ELSE [NewNode(FALSE) EXCEPT
                        !.keys = SliceFrom(fc.keys, mid + 1),
                        !.children = SliceFrom(fc.children, mid + 1)]
            left ==
                IF fc.is_leaf
                THEN [fc EXCEPT !.keys = Slice(fc.keys, 0, mid),
                                !.next_leaf = new_id]
                ELSE [fc EXCEPT !.keys = Slice(fc.keys, 0, mid),
                                !.children = Slice(fc.children, 0, mid + 1)]
            h1 == Bind(Bind(h, new_id, new_child), full_child, left)
            par == [h1[parent] EXCEPT
                      !.keys = ListInsert(@, child_index, promoted_key),
                      !.children = ListInsert(@, child_index + 1, new_id)]
        IN  [m EXCEPT !.h = Bind(h1, parent, par)]

\* "if key > node.keys[child_index]: child_index += 1" after a split
BPlusTree_index_after_split(keys, child_index, key) ==
    IF key > At(keys, child_index) THEN child_index + 1 ELSE child_index

\* BPlusTree._insert_non_full(node, key)
RECURSIVE BPlusTree_insert_non_full(_, _, _)
BPlusTree_insert_non_full(m, node, key) ==
    IF m.raised THEN m
    ELSE
    LET n == m.h[node] IN
    IF BPlusTree_is_leaf(m.h, node)
    THEN LET pos == BPlusTree_find_insert_pos(n.keys, key)
         IN  [m EXCEPT !.h[node].keys = ListInsert(n.keys, pos, key)]
    ELSE LET child_index == BPlusTree_find_child_index(n.keys, key) IN
         IF ~InRange(n.children, child_index) THEN Raise(m)
         ELSE IF Len(m.h[At(n.children, child_index)].keys) >= max_keys
         THEN LET m1 == BPlusTree_split_child(m, node, child_index) IN
              IF m1.raised THEN m1
              ELSE LET ci == BPlusTree_index_after_split(
                                 m1.h[node].keys, child_index, key)
                   IN  BPlusTree_insert_non_full(
                           m1, At(m1.h[node].children, ci), key)
         ELSE BPlusTree_insert_non_full(m, At(n.children, child_index), key)

\* "while not current.is_leaf: current = current.children[0]"
RECURSIVE BPlusTree_leftmost_leaf(_, _)
BPlusTree_leftmost_leaf(h, current) ==
    IF BPlusTree_is_leaf(h, current) THEN current
    ELSE BPlusTree_leftmost_leaf(h, At(h[current].children, 0))

\* BPlusTree.insert(key): [h, root, first_leaf, ret, raised]
BPlusTree_insert(h, r, f, key) ==
    LET result == BPlusTree_search(h, r, key) IN
    IF result.raised
    THEN [h |-> h, root |-> r, first_leaf |-> f, ret |-> FALSE, raised |-> TRUE]
    ELSE IF result.found
    THEN [h |-> h, root |-> r, first_leaf |-> f, ret |-> FALSE, raised |-> FALSE]
    ELSE
    LET grow == Len(h[r].keys) >= max_keys
        new_root == NewId(h)
        h1 == Bind(h, new_root, [NewNode(FALSE) EXCEPT !.children = <<r>>])
        m2 == IF grow THEN BPlusTree_split_child(Running(h1), new_root, 0)
              ELSE Running(h)
        r2 == IF grow THEN new_root ELSE r
        f2 == IF grow /\ ~m2.raised /\ r = f
              THEN BPlusTree_leftmost_leaf(m2.h, At(m2.h[new_root].children, 0))
              ELSE f
        m3 == BPlusTree_insert_non_full(m2, r2, key)
    IN  [h |-> m3.h, root |-> r2, first_leaf |-> f2,
         ret |-> ~m3.raised, raised |-> m3.raised]

\* BPlusTree._redistribute_from_left(parent, child_idx)
BPlusTree_redistribute_from_left(m, parent, child_idx) ==
    LET h == m.h
        child == At(h[parent].children, child_idx)
        left_sibling == At(h[parent].children, child_idx - 1)
        lk == h[left_sibling].keys
        lc == h[left_sibling].children
        moved == At(lk, Len(lk) - 1)
        \* leaf: the left sibling's last key moves, the separator is rewritten
        leaf1 == [h EXCEPT ![left_sibling].keys = Slice(lk, 0, Len(lk) - 1),
                           ![child].keys = ListInsert(@, 0, moved)]
        leaf2 == [leaf1 EXCEPT ![parent].keys = ListSet(@, child_idx - 1, moved)]
        \* internal: rotation through the parent
        int1 == [h EXCEPT ![child].keys =
                              ListInsert(@, 0, At(h[parent].keys, child_idx - 1))]
        int2 == [int1 EXCEPT ![parent].keys = ListSet(@, child_idx - 1, moved),
                             ![left_sibling].keys = Slice(lk, 0, Len(lk) - 1)]
        int3 == [int2 EXCEPT ![child].children = ListInsert(@, 0, At(lc, Len(lc) - 1)),
                             ![left_sibling].children = Slice(lc, 0, Len(lc) - 1)]
    IN  IF BPlusTree_is_leaf(h, child)
        THEN IF Len(lk) = 0 THEN Raise(m)
             ELSE IF ~InRange(h[parent].keys, child_idx - 1)
             THEN Raise([m EXCEPT !.h = leaf1])
             ELSE [m EXCEPT !.h = leaf2]
        ELSE IF ~InRange(h[parent].keys, child_idx - 1) THEN Raise(m)
             ELSE IF Len(lk) = 0 THEN Raise([m EXCEPT !.h = int1])
             ELSE IF Len(lc) = 0 THEN Raise([m EXCEPT !.h = int2])
             ELSE [m EXCEPT !.h = int3]

\* BPlusTree._redistribute_from_right(parent, child_idx)
BPlusTree_redistribute_from_right(m, parent, child_idx) ==
    LET h == m.h
        child == At(h[parent].children, child_idx)
        right_sibling == At(h[parent].children, child_idx + 1)
        rk == h[right_sibling].keys
        rc == h[right_sibling].children
        \* leaf: the right sibling's first key moves, the separator becomes
        \* the right sibling's new first key
        leaf1 == [h EXCEPT ![right_sibling].keys = ListRemove(rk, 0),
                           ![child].keys = Append(@, At(rk, 0))]
        leaf2 == [leaf1 EXCEPT ![parent].keys = ListSet(@, child_idx, At(rk, 1))]
        \* internal: rotation through the parent
        int1 == [h EXCEPT ![child].keys = Append(@, At(h[parent].keys, child_idx))]
        int2 == [int1 EXCEPT ![parent].keys = ListSet(@, child_idx, At(rk, 0)),
                             ![right_sibling].keys = ListRemove(rk, 0)]
        int3 == [int2 EXCEPT ![child].children = Append(@, At(rc, 0)),
                             ![right_sibling].children = ListRemove(rc, 0)]
    IN  IF BPlusTree_is_leaf(h, child)
        THEN IF Len(rk) = 0 THEN Raise(m)
             ELSE IF Len(rk) = 1 \/ ~InRange(h[parent].keys, child_idx)
             THEN Raise([m EXCEPT !.h = leaf1])
             ELSE [m EXCEPT !.h = leaf2]
        ELSE IF ~InRange(h[parent].keys, child_idx) THEN Raise(m)
             ELSE IF Len(rk) = 0 THEN Raise([m EXCEPT !.h = int1])
             ELSE IF Len(rc) = 0 THEN Raise([m EXCEPT !.h = int2])
             ELSE [m EXCEPT !.h = int3]

\* Mutant for C12: the leaf merge does not relink next_leaf.
BPlusTree_merge_with_left_unlinked(m, parent, child_idx) ==
    LET h == m.h
        child == At(h[parent].children, child_idx)
        left_sibling == At(h[parent].children, child_idx - 1)
        separator == At(h[parent].keys, child_idx - 1)
        merged ==
            IF BPlusTree_is_leaf(h, child)
            THEN [h[left_sibling] EXCEPT !.keys = @ \o h[child].keys]
            ELSE [h[left_sibling] EXCEPT
                    !.keys = Append(@, separator) \o h[child].keys,
                    !.children = @ \o h[child].children]
    IN  IF ~InRange(h[parent].keys, child_idx - 1) THEN Raise(m)
        ELSE [m EXCEPT !.h =
                [h EXCEPT ![parent].keys = ListRemove(@, child_idx - 1),
                          ![parent].children = ListRemove(@, child_idx),
                          ![left_sibling] = merged]]

\* BPlusTree._merge_with_left(parent, child_idx)
BPlusTree_merge_with_left(m, parent, child_idx) ==
    LET h == m.h
        child == At(h[parent].children, child_idx)
        left_sibling == At(h[parent].children, child_idx - 1)
        separator == At(h[parent].keys, child_idx - 1)
        merged ==
            IF BPlusTree_is_leaf(h, child)
            THEN [h[left_sibling] EXCEPT
                    !.keys = @ \o h[child].keys,
                    !.next_leaf = h[child].next_leaf]
            ELSE [h[left_sibling] EXCEPT
                    !.keys = Append(@, separator) \o h[child].keys,
                    !.children = @ \o h[child].children]
    IN  IF ~InRange(h[parent].keys, child_idx - 1) THEN Raise(m)
        ELSE [m EXCEPT !.h =
                [h EXCEPT ![parent].keys = ListRemove(@, child_idx - 1),
                          ![parent].children = ListRemove(@, child_idx),
                          ![left_sibling] = merged]]

\* BPlusTree._merge_with_right(parent, child_idx)
BPlusTree_merge_with_right(m, parent, child_idx) ==
    LET h == m.h
        child == At(h[parent].children, child_idx)
        right_sibling == At(h[parent].children, child_idx + 1)
        separator == At(h[parent].keys, child_idx)
        merged ==
            IF BPlusTree_is_leaf(h, child)
            THEN [h[child] EXCEPT
                    !.keys = @ \o h[right_sibling].keys,
                    !.next_leaf = h[right_sibling].next_leaf]
            ELSE [h[child] EXCEPT
                    !.keys = Append(@, separator) \o h[right_sibling].keys,
                    !.children = @ \o h[right_sibling].children]
    IN  IF ~InRange(h[parent].children, child_idx + 1) THEN Raise(m)
        ELSE IF ~InRange(h[parent].keys, child_idx) THEN Raise(m)
        ELSE [m EXCEPT !.h =
                [h EXCEPT ![parent].keys = ListRemove(@, child_idx),
                          ![parent].children = ListRemove(@, child_idx + 1),
                          ![child] = merged]]

\* Mutant for C18: when no sibling can lend a key the repair always merges
\* with the right sibling, also for the last child, which has none.
BPlusTree_fix_child_underflow_right_only(m, parent, child_idx) ==
    IF m.raised THEN m
    ELSE
    LET h == m.h
        ch == h[parent].children
        canLeft == child_idx > 0
                   /\ Len(h[At(ch, child_idx - 1)].keys) > min_keys
        canRight == child_idx < Len(ch) - 1
                    /\ Len(h[At(ch, child_idx + 1)].keys) > min_keys
    IN  IF canLeft THEN BPlusTree_redistribute_from_left(m, parent, child_idx)
        ELSE IF canRight THEN BPlusTree_redistribute_from_right(m, parent, child_idx)
        ELSE BPlusTree_merge_with_right(m, parent, child_idx)

\* BPlusTree._fix_child_underflow(parent, child_idx)
BPlusTree_fix_child_underflow(m, parent, child_idx) ==
    IF m.raised THEN m
    ELSE
    LET h == m.h
        ch == h[parent].children
        canLeft == child_idx > 0
                   /\ Len(h[At(ch, child_idx - 1)].keys) > min_keys
        canRight == child_idx < Len(ch) - 1
                    /\ Len(h[At(ch, child_idx + 1)].keys) > min_keys
    IN  IF canLeft THEN BPlusTree_redistribute_from_left(m, parent, child_idx)
        ELSE IF canRight THEN BPlusTree_redistribute_from_right(m, parent, child_idx)
        ELSE IF child_idx > 0 THEN BPlusTree_merge_with_left(m, parent, child_idx)
        ELSE BPlusTree_merge_with_right(m, parent, child_idx)

\* BPlusTree._delete_internal(node, key)
RECURSIVE BPlusTree_delete_internal(_, _, _)
BPlusTree_delete_internal(m, node, key) ==
    IF m.raised THEN m
    ELSE
    LET h == m.h
        n == h[node]
    IN
    IF BPlusTree_is_leaf(h, node)
    THEN LET key_idx == BPlusTree_leaf_scan(n.keys, key)
         IN  IF key_idx # -1
             THEN [m EXCEPT !.h[node].keys = ListRemove(n.keys, key_idx)]
             ELSE m
    ELSE LET child_idx == FirstGreater(n.keys, key) IN
         IF ~InRange(n.children, child_idx) THEN Raise(m)
         ELSE
         LET fix == Len(h[At(n.children, child_idx)].keys) <= min_keys
             m1 == IF fix THEN BPlusTree_fix_child_underflow(m, node, child_idx)
                   ELSE m
             idx2 == IF fix THEN FirstGreater(m1.h[node].keys, key) ELSE child_idx
         IN  IF m1.raised THEN m1
             ELSE IF ~InRange(m1.h[node].children, idx2) THEN Raise(m1)
             ELSE BPlusTree_delete_internal(m1, At(m1.h[node].children, idx2), key)

\* Mutant for C5: the existence pre-check is missing, so the descent and
\* its pre-emptive underflow repair run for an absent key too.
BPlusTree_delete_unchecked(h, r, f, key) ==
    LET m1 == BPlusTree_delete_internal(Running(h), r, key)
        shrink == ~m1.raised /\ Len(m1.h[r].keys) = 0 /\ Len(m1.h[r].children) > 0
        r2 == IF shrink THEN At(m1.h[r].children, 0) ELSE r
        f2 == IF shrink THEN BPlusTree_leftmost_leaf(m1.h, r2) ELSE f
    IN  [h |-> m1.h, root |-> r2, first_leaf |-> f2,
         ret |-> ~m1.raised, raised |-> m1.raised]

\* Mutant for C27: the emptied root is kept above its only child.
BPlusTree_delete_keeps_root(h, r, f, key) ==
    LET result == BPlusTree_search(h, r, key) IN
    IF result.raised
    THEN [h |-> h, root |-> r, first_leaf |-> f, ret |-> FALSE, raised |-> TRUE]
    ELSE IF ~result.found
    THEN [h |-> h, root |-> r, first_leaf |-> f, ret |-> FALSE, raised |-> FALSE]
    ELSE
    LET m1 == BPlusTree_delete_internal(Running(h), r, key)
    IN  [h |-> m1.h, root |-> r, first_leaf |-> f,
         ret |-> ~m1.raised, raised |-> m1.raised]

\* BPlusTree.delete(key): [h, root, first_leaf, ret, raised]
BPlusTree_delete(h, r, f, key) ==
    LET result == BPlusTree_search(h, r, key) IN
    IF result.raised
    THEN [h |-> h, root |-> r, first_leaf |-> f, ret |-> FALSE, raised |-> TRUE]
    ELSE IF ~result.found
    THEN [h |-> h, root |-> r, first_leaf |-> f, ret |-> FALSE, raised |-> FALSE]
    ELSE
    LET m1 == BPlusTree_delete_internal(Running(h), r, key)
        shrink == ~m1.raised /\ Len(m1.h[r].keys) = 0 /\ Len(m1.h[r].children) > 0
        r2 == IF shrink THEN At(m1.h[r].children, 0) ELSE r
        f2 == IF shrink THEN BPlusTree_leftmost_leaf(m1.h, r2) ELSE f
    IN  [h |-> m1.h, root |-> r2, first_leaf |-> f2,
         ret |-> ~m1.raised, raised |-> m1.raised]

\* BPlusTree.range_query: the descent to the leaf that may hold start_key;
\* NoNode stands for an IndexError on the way.
RECURSIVE BPlusTree_range_start(_, _, _)
BPlusTree_range_start(h, node, start_key) ==
    IF BPlusTree_is_leaf(h, node) THEN node
    ELSE LET child_idx == FirstGreater(h[node].keys, start_key)
         IN  IF ~InRange(h[node].children, child_idx) THEN NoNode
             ELSE BPlusTree_range_start(
                      h, At(h[node].children, child_idx), start_key)

\* BPlusTree.range_query: the walk along next_leaf from node; a key within
\* [start_key, end_key] is collected, the first key above end_key ends the
\* walk, a key below start_key is passed over.
RECURSIVE BPlusTree_range_collect(_, _, _, _)
BPlusTree_range_collect(h, node, start_key, end_key) ==
    IF node = NoNode THEN <<>>
    ELSE LET keys == h[node].keys
             above == {i \in 1..Len(keys) : keys[i] > end_key}
             stop == IF above = {} THEN Len(keys) + 1
                     ELSE CHOOSE i \in above : \A j \in above : i <= j
             taken == SelectSeq(SubSeq(keys, 1, stop - 1),
                                LAMBDA k : start_key <= k /\ k <= end_key)
         IN  IF above = {}
             THEN taken \o BPlusTree_range_collect(
                               h, h[node].next_leaf, start_key, end_key)
             ELSE taken

\* BPlusTree.range_query(start_key, end_key): [result, raised]
BPlusTree_range_query(h, r, start_key, end_key) ==
    LET leaf == BPlusTree_range_start(h, r, start_key)
    IN  IF leaf = NoNode THEN [result |-> <<>>, raised |-> TRUE]
        ELSE [result |-> BPlusTree_range_collect(h, leaf, start_key, end_key),
              raised |-> FALSE]

\* BPlusTree.sequential_scan(): the keys of the leaves met by following
\* next_leaf from node, concatenated.
RECURSIVE BPlusTree_scan_from(_, _)
BPlusTree_scan_from(h, node) ==
    IF node = NoNode THEN <<>>
    ELSE h[node].keys \o BPlusTree_scan_from(h, h[node].next_leaf)

BPlusTree_sequential_scan(h, f) == BPlusTree_scan_from(h, f)

-----------------------------------------------------------------------------
(* Tracer: src/core/trace.py *)

\* Tracer.__init__
Tracer_init == [events |-> <<>>, enabled |-> TRUE, current_op_id |-> 0]

\* Mutant for C22: clear advances the counter and keeps the log.
Tracer_clear_keeps_log(tr) ==
    [tr EXCEPT !.current_op_id = @ + 1]

\* Tracer.clear
Tracer_clear(tr) ==
    [tr EXCEPT !.events = <<>>, !.current_op_id = @ + 1]

\* Tracer.emit: nothing when disabled, else the event is appended
Tracer_emit(tr, event_type, node_id, info) ==
    IF ~tr.enabled THEN tr
    ELSE [tr EXCEPT !.events =
            Append(@, [type |-> event_type, node_id |-> node_id,
                       info |-> info, op_id |-> tr.current_op_id])]

-----------------------------------------------------------------------------
(* The state machine *)

\* BTree(fanout_n) / BPlusTree(fanout_n): a root that is an empty leaf;
\* the B+-Tree's first_leaf is the root.
Init ==
    /\ variant \in Variants
    /\ fanout_n \in Fanouts
    /\ heap = [n \in {1} |-> NewNode(TRUE)]
    /\ root = 1
    /\ first_leaf = IF variant = "BPlusTree" THEN 1 ELSE NoNode
    /\ last = [op |-> "init", key |-> 0, ret |-> FALSE, raised |-> FALSE,
               shrunk |-> FALSE]
    /\ tracer = Tracer_init

\* What the tree object holds after a call returned r = [h, root,
\* first_leaf, ret, raised], and the call's outcome; shrunk records that
\* the call left the tree with fewer nodes than it had (a merge).
After(r, op, key) ==
    LET c == Compact(r.h, r.root, r.first_leaf)
    IN  /\ heap' = c.h
        /\ root' = c.root
        /\ first_leaf' = c.first_leaf
        /\ last' = [op |-> op, key |-> key, ret |-> r.ret, raised |-> r.raised,
                    shrunk |-> Cardinality(DOMAIN c.h) < Cardinality(DOMAIN heap)]
        /\ UNCHANGED <<variant, fanout_n, tracer>>

BTreeInsert(key) ==
    /\ variant = "BTree"
    /\ key \in BTreeKeys
    /\ Cardinality(DOMAIN heap) < MaxNodes
    /\ After(BTree_insert(heap, root, key) @@ [first_leaf |-> NoNode],
             "insert", key)

BTreeDelete(key) ==
    /\ variant = "BTree"
    /\ key \in BTreeKeys
    /\ After(BTree_delete(heap, root, key) @@ [first_leaf |-> NoNode],
             "delete", key)

BPlusTreeInsert(key) ==
    /\ variant = "BPlusTree"
    /\ key \in BPlusTreeKeys
    /\ Cardinality(DOMAIN heap) < MaxNodes
    /\ After(BPlusTree_insert(heap, root, first_leaf, key), "insert", key)

BPlusTreeDelete(key) ==
    /\ variant = "BPlusTree"
    /\ key \in BPlusTreeKeys
    /\ After(BPlusTree_delete(heap, root, first_leaf, key), "delete", key)

Next ==
    \E key \in KeySet :
        \/ BTreeInsert(key)
        \/ BTreeDelete(key)
        \/ BPlusTreeInsert(key)
        \/ BPlusTreeDelete(key)

Spec == Init /\ [][Next]_vars

-----------------------------------------------------------------------------
(* What a caller can observe of a tree between calls *)

\* node.is_leaf of the variant in use
IsLeaf(h, n) ==
    IF variant = "BTree" THEN BTree_is_leaf(h, n) ELSE BPlusTree_is_leaf(h, n)

\* tree.search(key) of the variant in use
Search(h, r, key) ==
    IF variant = "BTree" THEN BTree_search(h, r, key)
    ELSE BPlusTree_search(h, r, key)

\* The nodes of the subtree under n (n included), by the child lists.
RECURSIVE Subtree(_, _)
Subtree(h, n) ==
    {n} \cup UNION {Subtree(h, h[n].children[i]) : i \in 1..Len(h[n].children)}

KeysOf(h, n) == {h[n].keys[i] : i \in 1..Len(h[n].keys)}

\* Every key held by some node of the subtree under n.
SubtreeKeys(h, n) == UNION {KeysOf(h, x) : x \in Subtree(h, n)}

\* The stored key set: B-Tree, the keys of all nodes; B+-Tree, the keys of
\* the leaves (internal keys are separator copies).
StoredKeys(h, r) ==
    IF variant = "BTree" THEN SubtreeKeys(h, r)
    ELSE UNION {KeysOf(h, x) : x \in {y \in Subtree(h, r) : h[y].is_leaf}}

\* The depths, counted from n at depth d, of the leaves under n.
RECURSIVE LeafDepths(_, _, _)
LeafDepths(h, n, d) ==
    IF Len(h[n].children) = 0 THEN {d}
    ELSE UNION {LeafDepths(h, h[n].children[i], d + 1) :
                    i \in 1..Len(h[n].children)}

Stored == StoredKeys(heap, root)
TreeNodes == Subtree(heap, root)
Completed == ~last.raised
StrictlyIncreasing(keys) == \A i \in 1..(Len(keys) - 1) : keys[i] < keys[i + 1]

\* The tree object and every node are as they were before the step.
TreeUnchanged == heap' = heap /\ root' = root /\ first_leaf' = first_leaf

-----------------------------------------------------------------------------
(* Claims *)

\* C1: insert(k) of a key that is not stored returns true, and afterwards
\* the stored key set is the previous set plus k and search finds every
\* key of it.
C1_InsertAddsKey ==
    [][(last'.op = "insert" /\ last'.key \notin Stored)
         => /\ last'.ret /\ ~last'.raised
            /\ Stored' = Stored \cup {last'.key}
            /\ \A k \in Stored' : Search(heap', root', k).found]_vars

\* C2: delete(k) of a stored key returns true, and afterwards the stored
\* key set is the previous set minus k: search(k) reports not-found and
\* every other key is still found.
C2_DeleteRemovesKey ==
    [][(last'.op = "delete" /\ last'.key \in Stored)
         => /\ last'.ret /\ ~last'.raised
            /\ Stored' = Stored \ {last'.key}
            /\ ~Search(heap', root', last'.key).found
            /\ \A k \in Stored' : Search(heap', root', k).found]_vars

\* C3: search(k) reports found exactly when k is stored; when found, the
\* reported node holds k at the reported index, and in the B+-Tree that
\* node is a leaf.
C3_SearchFindsExactlyStored ==
    \A k \in KeySet :
        LET res == Search(heap, root, k) IN
        /\ ~res.raised
        /\ res.found <=> k \in Stored
        /\ res.found =>
              /\ res.node_id \in TreeNodes
              /\ InRange(heap[res.node_id].keys, res.index)
              /\ At(heap[res.node_id].keys, res.index) = k
              /\ variant = "BPlusTree" => heap[res.node_id].is_leaf

\* C4: insert(k) of an already stored key returns false and leaves the
\* root, every node's keys and children, first_leaf and every next_leaf
\* link as they were.
C4_DuplicateInsertRejected ==
    [][(last'.op = "insert" /\ last'.key \in Stored)
         => (~last'.ret /\ ~last'.raised /\ TreeUnchanged)]_vars

\* C5: delete(k) of a key that is not stored returns false, raises no
\* error, and leaves the root, every node's keys and children, first_leaf
\* and every next_leaf link as they were.
C5_DeleteAbsentIsNoOp ==
    [][(last'.op = "delete" /\ last'.key \notin Stored)
         => (~last'.ret /\ ~last'.raised /\ TreeUnchanged)]_vars

\* C5 witness: a delete of an absent key has just returned, on a B+-Tree
\* of more than one level that stores keys.
C5_Witness ==
    /\ last.op = "delete" /\ ~last.ret /\ ~last.raised
    /\ last.key \notin Stored
    /\ variant = "BPlusTree"
    /\ Len(heap[root].children) > 0

\* C6: after every completed insert or delete all leaves are at the same
\* depth from the root.
C6_LeavesAtSameDepth ==
    Completed => Cardinality(LeafDepths(heap, root, 0)) = 1

\* C6 witness: a delete has just succeeded and left a tree of three
\* levels.
C6_Witness ==
    /\ last.op = "delete" /\ last.ret
    /\ LeafDepths(heap, root, 0) = {2}

\* C7: B-Tree: after every completed insert or delete every node holds at
\* most max_keys = n-1 keys and every non-root node at least
\* min_keys = ceil(n/2)-1 keys, so no non-root node is empty.
C7_BTreeKeyCounts ==
    (variant = "BTree" /\ Completed) =>
        \A n \in TreeNodes :
            /\ Len(heap[n].keys) <= fanout_n - 1
            /\ n # root => /\ 2 * (Len(heap[n].keys) + 1) >= fanout_n
                           /\ Len(heap[n].keys) > 0

\* C7 witness: a B-Tree delete has just succeeded by merging nodes and the
\* tree still has non-root nodes.
C7_Witness ==
    /\ variant = "BTree"
    /\ last.op = "delete" /\ last.ret /\ last.shrunk
    /\ Len(heap[root].children) > 0

\* C8: B+-Tree: after every completed insert or delete every non-root
\* node, leaf or internal, holds at least min_keys = ceil(n/2)-1 keys.
C8_BPlusTreeMinKeys ==
    (variant = "BPlusTree" /\ Completed) =>
        \A n \in TreeNodes \ {root} :
            2 * (Len(heap[n].keys) + 1) >= fanout_n

\* C9: B+-Tree: after every completed insert or delete every node holds at
\* most max_keys = n-1 keys.
C9_BPlusTreeMaxKeys ==
    (variant = "BPlusTree" /\ Completed) =>
        \A n \in TreeNodes : Len(heap[n].keys) <= fanout_n - 1

\* C10: after every completed insert or delete the keys of every node are
\* strictly increasing, and every key in the subtree under children[i] of
\* an internal node lies between keys[i-1] and keys[i]: strictly (B-Tree);
\* at least keys[i-1] and strictly below keys[i] (B+-Tree).
C10_KeyOrdering ==
    Completed =>
        \A n \in TreeNodes :
            /\ StrictlyIncreasing(heap[n].keys)
            /\ \A i \in 1..Len(heap[n].children) :
                 \A k \in SubtreeKeys(heap, heap[n].children[i]) :
                    /\ (i > 1 /\ i - 1 <= Len(heap[n].keys)) =>
                          IF variant = "BTree"
                          THEN heap[n].keys[i - 1] < k
                          ELSE heap[n].keys[i - 1] <= k
                    /\ i <= Len(heap[n].keys) => k < heap[n].keys[i]

\* The nodes that hold stored keys: every node (B-Tree), the leaves
\* (B+-Tree).
DataNodes ==
    IF variant = "BTree" THEN TreeNodes
    ELSE {n \in TreeNodes : heap[n].is_leaf}

\* C11: after every completed insert or delete each stored key occurs in
\* exactly one node of the tree (B-Tree) / in exactly one leaf (B+-Tree).
C11_KeyInExactlyOneNode ==
    Completed =>
        \A k \in Stored :
            Cardinality({n \in DataNodes : k \in KeysOf(heap, n)}) = 1

\* The leaves under n, left to right.
RECURSIVE LeavesInOrder(_, _)
LeavesInOrder(h, n) ==
    IF h[n].is_leaf THEN <<n>>
    ELSE LET below[i \in 0..Len(h[n].children)] ==
                 IF i = 0 THEN <<>>
                 ELSE below[i - 1] \o LeavesInOrder(h, h[n].children[i])
         IN  below[Len(h[n].children)]

\* The nodes met by following next_leaf from n, in order, up to the end of
\* the chain or the first node met a second time; out is the part walked.
RECURSIVE LeafChain(_, _, _)
LeafChain(h, n, out) ==
    IF n = NoNode \/ n \notin DOMAIN h \/ \E j \in 1..Len(out) : out[j] = n
    THEN out
    ELSE LeafChain(h, h[n].next_leaf, Append(out, n))

\* C12: B+-Tree: after every completed insert or delete, following
\* next_leaf from first_leaf visits exactly the leaves of the tree, each
\* once, left to right; the last one has no next_leaf; first_leaf is the
\* leftmost leaf; and along the chain no leaf starts below the last key of
\* the leaf before it.
C12_LeafChain ==
    (variant = "BPlusTree" /\ Completed) =>
        LET leaves == LeavesInOrder(heap, root)
            chain == LeafChain(heap, first_leaf, <<>>)
        IN  /\ chain = leaves
            /\ heap[leaves[Len(leaves)]].next_leaf = NoNode
            /\ first_leaf = leaves[1]
            /\ \A i \in 1..(Len(leaves) - 1) :
                  LET a == heap[leaves[i]].keys
                      b == heap[leaves[i + 1]].keys
                  IN  (Len(a) > 0 /\ Len(b) > 0) => a[Len(a)] <= b[1]

\* C12 witness: a B+-Tree delete has just merged nodes and left at least
\* three leaves.
C12_Witness ==
    /\ variant = "BPlusTree"
    /\ last.op = "delete" /\ last.ret /\ last.shrunk
    /\ Len(LeavesInOrder(heap, root)) >= 3

\* The elements of a list.
Elements(s) == {s[i] : i \in 1..Len(s)}

\* C13: B+-Tree: after every completed insert or delete sequential_scan()
\* returns exactly the stored keys, each once, in ascending order.
C13_SequentialScan ==
    (variant = "BPlusTree" /\ Completed) =>
        LET scan == BPlusTree_sequential_scan(heap, first_leaf)
        IN  /\ Elements(scan) = Stored
            /\ StrictlyIncreasing(scan)

\* Bounds offered to range_query: every key and one value on either side.
RangeBounds == 0..(MaxKey + 1)

\* C14: B+-Tree: after every completed insert or delete and for every
\* lo <= hi, stored or not, range_query(lo, hi) returns exactly the stored
\* keys k with lo <= k <= hi, each once, in ascending order.
C14_RangeQuery ==
    (variant = "BPlusTree" /\ Completed) =>
        \A lo \in RangeBounds : \A hi \in RangeBounds :
            lo <= hi =>
                LET q == BPlusTree_range_query(heap, root, lo, hi)
                IN  /\ ~q.raised
                    /\ Elements(q.result) = {k \in Stored : lo <= k /\ k <= hi}
                    /\ StrictlyIncreasing(q.result)

\* tree.insert(key) / tree.delete(key) of the variant in use, applied to the
\* tree object (h, r, f): [h, root, first_leaf, ret, raised]
Insert(h, r, f, key) ==
    IF variant = "BTree" THEN BTree_insert(h, r, key) @@ [first_leaf |-> NoNode]
    ELSE BPlusTree_insert(h, r, f, key)

Delete(h, r, f, key) ==
    IF variant = "BTree" THEN BTree_delete(h, r, key) @@ [first_leaf |-> NoNode]
    ELSE BPlusTree_delete(h, r, f, key)

\* insert(key) followed by delete(key) on the current tree: the outcome of
\* the delete, with the outcome of the insert kept in inserted.
InsertThenDelete(key) ==
    LET i == Insert(heap, root, first_leaf, key)
        d == IF i.raised THEN i ELSE Delete(i.h, i.root, i.first_leaf, key)
    IN  d @@ [inserted |-> i]

\* C15: on any tree reached by inserts and deletes and for any key k not
\* stored in it, insert(k) followed by delete(k) leaves the stored key set
\* equal to the set before the insert.
C15_InsertThenDeleteRestores ==
    Completed =>
        \A k \in (IF variant = "BTree" THEN BTreeKeys ELSE BPlusTreeKeys) \ Stored :
            LET d == InsertThenDelete(k)
            IN  ~d.raised /\ StoredKeys(d.h, d.root) = Stored

-----------------------------------------------------------------------------
(* A tree populated by inserts and then emptied: inserts are offered only   *)
(* until the first delete, and only stored keys are deleted.                *)

\* The keys offered to the variant in use.
VariantKeys == IF variant = "BTree" THEN BTreeKeys ELSE BPlusTreeKeys

DrainInsert(key) ==
    /\ key \in VariantKeys
    /\ last.op \in {"init", "insert"}
    /\ After(Insert(heap, root, first_leaf, key), "insert", key)

DrainDelete(key) ==
    /\ key \in Stored
    /\ After(Delete(heap, root, first_leaf, key), "delete", key)

NextDrain ==
    \E key \in KeySet : DrainInsert(key) \/ DrainDelete(key)

SpecDrain == Init /\ [][NextDrain]_vars

\* C16: starting from a tree populated by inserts, deleting every stored
\* key, in any order, raises nothing and leaves a root with no keys and no
\* children, so that get_all_nodes() returns at most one node.
C16_DrainLeavesEmptyRoot ==
    last.op = "delete" =>
        /\ ~last.raised
        /\ Stored = {} =>
              /\ heap[root].keys = <<>>
              /\ heap[root].children = <<>>
              /\ Cardinality(TreeNodes) <= 1

\* C16 witness: the last stored key has just been deleted.
C16_Witness ==
    /\ last.op = "delete" /\ last.ret
    /\ Stored = {}
    /\ last.key # 0

-----------------------------------------------------------------------------
(* The stress scenario of tests/stress_test.py: insert 1..15 ascending,     *)
(* delete the pivots, delete the rest.                                      *)

ScenarioInserts == [i \in 1..15 |-> i]
ScenarioTargets == <<8, 4, 12, 2, 6, 10, 14>>
ScenarioRemaining ==
    SelectSeq(ScenarioInserts, LAMBDA k : k \notin Elements(ScenarioTargets))

\* The calls of the scenario, in order.
ScenarioScript ==
    [i \in 1..Len(ScenarioInserts) |-> [op |-> "insert", key |-> ScenarioInserts[i]]]
    \o [i \in 1..Len(ScenarioTargets) |-> [op |-> "delete", key |-> ScenarioTargets[i]]]
    \o [i \in 1..Len(ScenarioRemaining) |-> [op |-> "delete", key |-> ScenarioRemaining[i]]]

\* How many calls of the scenario have been made: every call of the script
\* is a different (op, key), so the last call tells.
ScenarioDone ==
    IF last.op = "init" THEN 0
    ELSE CHOOSE i \in 1..Len(ScenarioScript) :
             ScenarioScript[i] = [op |-> last.op, key |-> last.key]

ScenarioInsert ==
    /\ ScenarioDone < Len(ScenarioScript)
    /\ LET c == ScenarioScript[ScenarioDone + 1]
       IN  /\ c.op = "insert"
           /\ After(Insert(heap, root, first_leaf, c.key), "insert", c.key)

ScenarioDelete ==
    /\ ScenarioDone < Len(ScenarioScript)
    /\ LET c == ScenarioScript[ScenarioDone + 1]
       IN  /\ c.op = "delete"
           /\ After(Delete(heap, root, first_leaf, c.key), "delete", c.key)

NextScenario == ScenarioInsert \/ ScenarioDelete

SpecScenario == Init /\ [][NextScenario]_vars

\* The structural checks of validate_bplustree on the tree (h, r, f): key
\* count at most max_keys, keys of a node strictly increasing, no key twice
\* in the leaves, children = keys + 1 in internal nodes, leaves at one
\* depth, and the next_leaf chain from first_leaf made of leaves, as many
\* as the tree has, none starting below the last key of the one before,
\* the last without next_leaf.
BPlusTree_validate(h, r, f) ==
    LET nodes == Subtree(h, r)
        leaves == LeavesInOrder(h, r)
        leaf_keys == BPlusTree_scan_from(h, leaves[1])
        chain == LeafChain(h, f, <<>>)
    IN  /\ \A n \in nodes : Len(h[n].keys) <= max_keys
        /\ \A n \in nodes : StrictlyIncreasing(h[n].keys)
        /\ \A n \in nodes : \A x \in nodes :
              (h[n].is_leaf /\ h[x].is_leaf /\ n # x)
                  => KeysOf(h, n) \cap KeysOf(h, x) = {}
        /\ \A n \in nodes :
              ~h[n].is_leaf => Len(h[n].children) = Len(h[n].keys) + 1
        /\ Cardinality(LeafDepths(h, r, 0)) = 1
        /\ \A i \in 1..Len(chain) : h[chain[i]].is_leaf
        /\ \A i \in 1..(Len(chain) - 1) :
              LET a == h[chain[i]].keys
                  b == h[chain[i + 1]].keys
              IN  (Len(a) > 0 /\ Len(b) > 0) => a[Len(a)] <= b[1]
        /\ Len(chain) = Len(leaves)
        /\ h[leaves[Len(leaves)]].next_leaf = NoNode

\* C17: B+-Tree of fanout 3, insert 1..15 ascending, then delete 8, 4, 12,
\* 2, 6, 10, 14: after each of these deletions the validator's structural
\* checks hold and sequential_scan() is the sorted remaining key set.
C17_StressScenario ==
    (/\ variant = "BPlusTree" /\ fanout_n = 3
     /\ last.op = "delete" /\ last.key \in Elements(ScenarioTargets)) =>
        LET deleted == {ScenarioTargets[j] :
                            j \in 1..(ScenarioDone - Len(ScenarioInserts))}
            scan == BPlusTree_sequential_scan(heap, first_leaf)
        IN  /\ ~last.raised /\ last.ret
            /\ BPlusTree_validate(heap, root, first_leaf)
            /\ Elements(scan) = Elements(ScenarioInserts) \ deleted
            /\ StrictlyIncreasing(scan)

\* C18: in both variants and for every fanout of the model, no insert and no
\* delete applied to a reachable tree has raised an error (the call returned
\* its boolean), and search raises for no key on any reachable tree.
C18_NoErrorRaised ==
    /\ ~last.raised
    /\ last.ret \in BOOLEAN
    /\ \A key \in KeySet :
          LET result == Search(heap, root, key)
          IN  ~result.raised /\ result.found \in BOOLEAN

\* a B+-Tree delete whose underflow repair merged two nodes
C18_Witness ==
    /\ variant = "BPlusTree" /\ last.op = "delete"
    /\ last.ret /\ last.shrunk /\ ~last.raised
    /\ ~heap[root].is_leaf

-----------------------------------------------------------------------------
(* The emits of the tree operations.  The trees hold a Tracer and emit to
   it; that log is not part of the tree state above (the operations never
   read it), so it is computed here for one call on a given tree. *)

\* The COMPARE_KEY events of one key loop that looked at the first n keys.
RECURSIVE Tracer_emit_compares(_, _, _, _, _, _)
Tracer_emit_compares(tr, node_id, keys, key, i, n) ==
    IF i >= n THEN tr
    ELSE Tracer_emit_compares(
            Tracer_emit(tr, "compare_key", node_id,
                        [key_index |-> i, node_key |-> At(keys, i),
                         target_key |-> key]),
            node_id, keys, key, i + 1, n)

\* How many keys a loop with break looks at: up to and including the first
\* one at which it stops, or all of them.
Looked(keys, stops) ==
    IF stops = {} THEN Len(keys)
    ELSE CHOOSE x \in stops : \A y \in stops : x <= y

\* BTree.search with its emits: the tracer when search returns.
RECURSIVE BTree_search_trace(_, _, _, _)
BTree_search_trace(tr, h, node, key) ==
    LET keys == h[node].keys
        tr1 == Tracer_emit(tr, "visit_node", node, [keys |-> keys])
        n == Looked(keys, {i \in 1..Len(keys) : key = keys[i] \/ key < keys[i]})
        tr2 == Tracer_emit_compares(tr1, node, keys, key, 0, n)
        found_index == BTree_scan(keys, key)
        child_index == FirstGreater(keys, key)
    IN  IF found_index # -1
        THEN Tracer_emit(tr2, "search_found", node,
                         [key |-> key, index |-> found_index])
        ELSE IF BTree_is_leaf(h, node)
        THEN Tracer_emit(tr2, "search_not_found", node, [key |-> key])
        ELSE LET tr3 == Tracer_emit(tr2, "descend", node,
                            [child_index |-> child_index, target_key |-> key])
             IN  IF ~InRange(h[node].children, child_index) THEN tr3
                 ELSE BTree_search_trace(tr3, h, At(h[node].children, child_index), key)

\* BPlusTree.search with its emits: the tracer when search returns.
RECURSIVE BPlusTree_search_trace(_, _, _, _)
BPlusTree_search_trace(tr, h, node, key) ==
    LET keys == h[node].keys
        tr1 == Tracer_emit(tr, "visit_node", node, [keys |-> keys])
        i == BPlusTree_leaf_scan(keys, key)
        child_index == FirstGreater(keys, key)
    IN  IF BPlusTree_is_leaf(h, node)
        THEN LET n == Looked(keys, {j \in 1..Len(keys) : keys[j] = key})
                 tr2 == Tracer_emit_compares(tr1, node, keys, key, 0, n)
             IN  IF i # -1
                 THEN Tracer_emit(tr2, "search_found", node,
                                  [key |-> key, index |-> i])
                 ELSE Tracer_emit(tr2, "search_not_found", node, [key |-> key])
        ELSE LET n == Looked(keys, {j \in 1..Len(keys) : key < keys[j]})
                 tr2 == Tracer_emit_compares(tr1, node, keys, key, 0, n)
                 tr3 == Tracer_emit(tr2, "descend", node,
                            [child_index |-> child_index, target_key |-> key])
             IN  IF ~InRange(h[node].children, child_index) THEN tr3
                 ELSE BPlusTree_search_trace(tr3, h, At(h[node].children, child_index), key)

\* tree.search(key) of the variant in use, with its emits
SearchTrace(tr, h, r, key) ==
    IF variant = "BTree" THEN BTree_search_trace(tr, h, r, key)
    ELSE BPlusTree_search_trace(tr, h, r, key)

\* insert(key) of a stored key: the tracer when insert returns False.  The
\* call is search(key) and the return; tracer.clear() comes after the return.
InsertDuplicateTrace(tr, h, r, key) == SearchTrace(tr, h, r, key)

\* The tracer the caller holds before the call, tracing enabled: the log
\* emptied by tracer.clear(), or holding the events of a search made since
\* (here of key 0, which is never stored).
TracersBefore ==
    {Tracer_clear(Tracer_init),
     SearchTrace(Tracer_clear(Tracer_init), heap, root, 0)}

\* C19: in both variants, insert(k) of a stored key called with tracing
\* enabled adds no event to the trace log: the log after the rejected insert
\* equals the log before it.
C19_DuplicateInsertNoTrace ==
    \A key \in KeySet : \A tr \in TracersBefore :
        Search(heap, root, key).found =>
            InsertDuplicateTrace(tr, heap, root, key).events = tr.events

-----------------------------------------------------------------------------
(* Construction.  The specifications above start from a constructed tree;
   SpecConstruct starts before the constructor call, with no tree object
   (variant "none", an empty heap), and follows a constructed tree through
   inserts and deletes. *)

\* The fanouts the constructor is called with: the supported 3..10 and two
\* values on either side.
ConstructFanouts == 1..12

\* The keys used on a tree after its construction.
ConstructKeys == 1..3

\* Mutant for C20: the constructor without its range check.
BTree_init_unvalidated(n) ==
    [raised |-> FALSE, fanout_n |-> n,
     heap |-> [x \in {1} |-> NewNode(TRUE)], root |-> 1, first_leaf |-> NoNode]

\* BTree.__init__(fanout_n): ValueError outside 3..10, else the fields of
\* the new tree (max_keys and min_keys are computed from fanout_n).
BTree_init(n) ==
    IF ~(3 <= n /\ n <= 10)
    THEN [raised |-> TRUE, fanout_n |-> 0,
          heap |-> <<>>, root |-> NoNode, first_leaf |-> NoNode]
    ELSE [raised |-> FALSE, fanout_n |-> n,
          heap |-> [x \in {1} |-> NewNode(TRUE)], root |-> 1, first_leaf |-> NoNode]

\* BPlusTree.__init__(fanout_n): the same, and first_leaf is the root.
BPlusTree_init(n) ==
    IF ~(3 <= n /\ n <= 10)
    THEN [raised |-> TRUE, fanout_n |-> 0,
          heap |-> <<>>, root |-> NoNode, first_leaf |-> NoNode]
    ELSE [raised |-> FALSE, fanout_n |-> n,
          heap |-> [x \in {1} |-> NewNode(TRUE)], root |-> 1, first_leaf |-> 1]

InitConstruct ==
    /\ variant = "none"
    /\ fanout_n = 0
    /\ heap = <<>>
    /\ root = NoNode
    /\ first_leaf = NoNode
    /\ last = [op |-> "none", key |-> 0, ret |-> FALSE, raised |-> FALSE,
               shrunk |-> FALSE]
    /\ tracer = Tracer_init

\* T(n) for a class T: when it raises, the caller holds no tree.
Construct(T, n) ==
    /\ variant = "none"
    /\ LET t == IF T = "BTree" THEN BTree_init(n) ELSE BPlusTree_init(n)
       IN  /\ variant' = IF t.raised THEN "none" ELSE T
           /\ fanout_n' = t.fanout_n
           /\ heap' = t.heap
           /\ root' = t.root
           /\ first_leaf' = t.first_leaf
           /\ last' = [op |-> "construct", key |-> n, ret |-> FALSE,
                       raised |-> t.raised, shrunk |-> FALSE]
           /\ UNCHANGED tracer

ConstructInsert(key) ==
    /\ variant \in Variants
    /\ After(Insert(heap, root, first_leaf, key), "insert", key)

ConstructDelete(key) ==
    /\ variant \in Variants
    /\ After(Delete(heap, root, first_leaf, key), "delete", key)

NextConstruct ==
    \/ \E T \in Variants : \E n \in ConstructFanouts : Construct(T, n)
    \/ \E key \in ConstructKeys : ConstructInsert(key)
    \/ \E key \in ConstructKeys : ConstructDelete(key)

SpecConstruct == InitConstruct /\ [][NextConstruct]_vars

\* ceil(n / 2), by its definition
CeilHalf(n) == CHOOSE c \in 0..n : 2 * c >= n /\ 2 * (c - 1) < n

\* C20: a constructor call with a fanout outside 3..10 raises and leaves no
\* tree; with a fanout n in 3..10 it gives a tree whose root is a single leaf
\* without keys, with max_keys = n - 1 and min_keys = ceil(n/2) - 1; and no
\* later call on the tree changes fanout_n, max_keys or min_keys.
C20_Construction ==
    [][/\ last'.op = "construct" =>
            IF last'.key \in 3..10
            THEN /\ ~last'.raised
                 /\ variant' \in Variants
                 /\ DOMAIN heap' = {root'}
                 /\ heap'[root'].keys = <<>>
                 /\ heap'[root'].children = <<>>
                 /\ heap'[root'].is_leaf
                 /\ fanout_n' = last'.key
                 /\ max_keys' = last'.key - 1
                 /\ min_keys' = CeilHalf(last'.key) - 1
            ELSE /\ last'.raised
                 /\ variant' = "none"
                 /\ heap' = <<>>
                 /\ root' = NoNode
       /\ variant \in Variants =>
            /\ variant' = variant
            /\ fanout_n' = fanout_n
            /\ max_keys' = max_keys
            /\ min_keys' = min_keys
            /\ max_keys' = fanout_n - 1
      ]_vars

\* C20 witness: a tree constructed with the largest supported fanout has
\* since accepted an insert.
C20_Witness ==
    /\ variant \in Variants /\ fanout_n = 10
    /\ last.op = "insert" /\ last.ret

-----------------------------------------------------------------------------
(* The validators: src/core/validate.py.  A call is modelled by its
   outcome: "True" (it returned), or the class of the exception raised. *)

\* leaf_depths of validate_node: the depths at which a node with is_leaf
\* set is met walking down from n at depth d.
RECURSIVE validate_leaf_depths(_, _, _)
validate_leaf_depths(h, n, d) ==
    IF h[n].is_leaf THEN {d}
    ELSE UNION {validate_leaf_depths(h, h[n].children[i], d + 1) :
                    i \in 1..Len(h[n].children)}

\* validate_bplustree, lines 149-200: validate_node over the tree and the
\* leaf depth check pass.
validate_bplustree_nodes(h, r) ==
    LET nodes == Subtree(h, r)
    IN  /\ \A n \in nodes : Len(h[n].keys) <= max_keys
        /\ \A n \in nodes : StrictlyIncreasing(h[n].keys)
        /\ \A n \in nodes : \A x \in nodes :
              (h[n].is_leaf /\ h[x].is_leaf /\ n # x)
                  => KeysOf(h, n) \cap KeysOf(h, x) = {}
        /\ \A n \in nodes :
              ~h[n].is_leaf => Len(h[n].children) = Len(h[n].keys) + 1
        /\ Cardinality(validate_leaf_depths(h, r, 0)) <= 1

\* validate_bplustree, lines 204-226: the walk along next_leaf from
\* first_leaf and the count comparison pass.
validate_bplustree_chain(h, r, f) ==
    LET chain == LeafChain(h, f, <<>>)
        leaf_nodes == {n \in Subtree(h, r) : h[n].is_leaf}
    IN  /\ \A i \in 1..Len(chain) : h[chain[i]].is_leaf
        /\ \A i \in 1..(Len(chain) - 1) :
              LET a == h[chain[i]].keys
                  b == h[chain[i + 1]].keys
              IN  (Len(a) > 0 /\ Len(b) > 0) => a[Len(a)] <= b[1]
        /\ Len(chain) = Cardinality(leaf_nodes)

\* validate_bplustree(tree).  Line 229 reads leaf_nodes_sorted, a name that
\* is bound nowhere: reaching it raises NameError.
validate_bplustree(h, r, f) ==
    IF ~validate_bplustree_nodes(h, r) THEN "ValidationError"
    ELSE IF f = NoNode THEN "True"
    ELSE IF ~validate_bplustree_chain(h, r, f) THEN "ValidationError"
    ELSE "NameError"

\* C21: the B+-Tree validator returns normally on every B+-Tree that
\* satisfies all the structural invariants it checks, and when it does not
\* return normally the error raised is ValidationError and no other.
C21_ValidatorOutcome ==
    (variant = "BPlusTree" /\ Completed) =>
        LET outcome == validate_bplustree(heap, root, first_leaf)
        IN  /\ BPlusTree_validate(heap, root, first_leaf) => outcome = "True"
            /\ outcome \in {"True", "ValidationError"}

-----------------------------------------------------------------------------
(* The Tracer by itself: any sequence of clear, emit, enable and disable
   calls on a new Tracer; last records the call just made. *)

\* The log is followed up to MaxEvents events and the counter up to MaxOpId.
MaxEvents == 3
MaxOpId == 3

\* The event types and node ids the calls are made with.
EmitTypes == {"visit_node", "compare_key"}
EmitNodes == {1, 2}

InitTracer ==
    /\ InitConstruct

Called(op, key) ==
    /\ last' = [op |-> op, key |-> key, ret |-> FALSE, raised |-> FALSE,
                shrunk |-> FALSE]
    /\ UNCHANGED <<variant, fanout_n, heap, root, first_leaf>>

TracerClear ==
    /\ tracer.current_op_id < MaxOpId
    /\ tracer' = Tracer_clear(tracer)
    /\ Called("clear", 0)

TracerEmit(event_type, node_id) ==
    /\ Len(tracer.events) < MaxEvents
    /\ tracer' = Tracer_emit(tracer, event_type, node_id, <<>>)
    /\ Called("emit", node_id)

\* Tracer.enable
TracerEnable ==
    /\ tracer' = [tracer EXCEPT !.enabled = TRUE]
    /\ Called("enable", 0)

\* Tracer.disable
TracerDisable ==
    /\ tracer' = [tracer EXCEPT !.enabled = FALSE]
    /\ Called("disable", 0)

NextTracer ==
    \/ TracerClear
    \/ \E event_type \in EmitTypes : \E node_id \in EmitNodes :
            TracerEmit(event_type, node_id)
    \/ TracerEnable
    \/ TracerDisable

SpecTracer == InitTracer /\ [][NextTracer]_vars

\* C22: clear() empties the log and increases the operation counter by
\* exactly one; an event emitted afterwards (tracing enabled) is appended
\* with the counter's current value; and after every call all events in the
\* log carry one operation number, the tracer's current counter.
C22_TracerOperationIds ==
    [][/\ last'.op = "clear" =>
            /\ tracer'.events = <<>>
            /\ tracer'.current_op_id = tracer.current_op_id + 1
       /\ (last'.op = "emit" /\ tracer.enabled) =>
            /\ Len(tracer'.events) = Len(tracer.events) + 1
            /\ SubSeq(tracer'.events, 1, Len(tracer.events)) = tracer.events
            /\ tracer'.events[Len(tracer'.events)].op_id = tracer.current_op_id
       /\ last'.op # "clear" => tracer'.current_op_id = tracer.current_op_id
       /\ \A i \in 1..Len(tracer'.events) :
            tracer'.events[i].op_id = tracer'.current_op_id
      ]_vars

\* C22 witness: events emitted after the second clear are in the log.
C22_Witness ==
    /\ last.op = "emit"
    /\ tracer.current_op_id = 2
    /\ Len(tracer.events) = 2

-----------------------------------------------------------------------------
(* Height growth on insert *)

\* The number of levels of the tree under n (its leftmost path).
RECURSIVE Height(_, _)
Height(h, n) ==
    IF Len(h[n].children) = 0 THEN 1
    ELSE 1 + Height(h, h[n].children[1])

\* The NEW_ROOT events that BTree.insert(key) emits: one, after the root
\* that overflowed has been split under the new root (lines 172-181).
BTree_insert_new_root_events(h, r, key) ==
    LET res == BTree_insert(h, r, key)
        m1 == BTree_insert_recursive(Running(h), r, key)
    IN  IF res.raised \/ ~res.ret THEN <<>>
        ELSE IF Len(m1.h[r].keys) > max_keys
        THEN <<[type |-> "new_root", node_id |-> res.root,
                info |-> [old_root_id |-> r,
                          promoted_key |-> At(res.h[res.root].keys, 0)]]>>
        ELSE <<>>

\* The NEW_ROOT events that BPlusTree.insert(key) emits: insert (lines
\* 157-193), _split_child and _insert_non_full hold no emit of that type.
BPlusTree_insert_new_root_events(h, r, f, key) == <<>>

InsertNewRootEvents(h, r, f, key) ==
    IF variant = "BTree" THEN BTree_insert_new_root_events(h, r, key)
    ELSE BPlusTree_insert_new_root_events(h, r, f, key)

\* C23: in both variants an insert increases the height by at most one;
\* it does so exactly when the old root has become the child of a newly
\* created root; and every insert that increases the height leaves a
\* NEW_ROOT event in its trace.
C23_InsertHeightGrowth ==
    Completed =>
        \A key \in VariantKeys :
            LET res == Insert(heap, root, first_leaf, key)
                before == Height(heap, root)
                after == Height(res.h, res.root)
                grown == after > before
            IN  ~res.raised =>
                  /\ after \in {before, before + 1}
                  /\ grown <=> (/\ res.root \notin DOMAIN heap
                                /\ At(res.h[res.root].children, 0) = root)
                  /\ grown => InsertNewRootEvents(heap, root, first_leaf, key) # <<>>

-----------------------------------------------------------------------------
(* B-Tree delete of a key held by an internal node *)

\* The key that _delete_recursive writes over keys[key_idx] of the internal
\* node holding the deleted key (lines 379 and 387), and then deletes from
\* children[key_idx] (line 391).
BTree_replacement(h, node, key_idx) == BTree_get_predecessor(h, node, key_idx).key

Max(S) == CHOOSE x \in S : \A y \in S : y <= x
Min(S) == CHOOSE x \in S : \A y \in S : x <= y

\* In-order neighbours of keys[key_idx] of an internal node: the largest
\* key under its left child, the smallest under its right child.
InOrderPredecessor(h, node, key_idx) ==
    Max(SubtreeKeys(h, At(h[node].children, key_idx)))
InOrderSuccessor(h, node, key_idx) ==
    Min(SubtreeKeys(h, At(h[node].children, key_idx + 1)))

\* C24: B-Tree delete of a key found in an internal node replaces it with
\* the in-order predecessor, or with the in-order successor when the left
\* child is at minimum occupancy, and deletes the replacement from the
\* subtree it came from (the stored keys lose the deleted key only).
C24_InternalDeleteReplacement ==
    (variant = "BTree" /\ Completed) =>
        \A key \in Stored :
            LET result == BTree_search(heap, root, key)
                node == result.node_id
                key_idx == result.index
            IN  ~BTree_is_leaf(heap, node) =>
                  LET left == At(heap[node].children, key_idx)
                      d == BTree_delete(heap, root, key)
                  IN  /\ BTree_replacement(heap, node, key_idx) =
                            IF Len(heap[left].keys) > min_keys
                            THEN InOrderPredecessor(heap, node, key_idx)
                            ELSE InOrderSuccessor(heap, node, key_idx)
                      /\ ~d.raised /\ d.ret
                      /\ SubtreeKeys(d.h, d.root) = Stored \ {key}

-----------------------------------------------------------------------------
(* The repairs made during a delete.  A repair is a call of
   _handle_underflow (B-Tree) or _fix_child_underflow (B+-Tree); it is
   recorded as [h, parent, child_idx]: the nodes at the moment of the call
   and the arguments. *)

\* The repair calls of BTree._delete_recursive(node, key), in call order:
\* each one follows the return of the recursion into the child.
RECURSIVE BTree_delete_repairs(_, _, _)
BTree_delete_repairs(m, node, key) ==
    IF m.raised THEN <<>>
    ELSE
    LET h == m.h
        n == h[node]
        key_idx == BTree_scan(n.keys, key)
        \* the recursion into children[idx] for key k, then the check-back
        below(m1, idx, k) ==
            LET inner == BTree_delete_repairs(m1, At(n.children, idx), k)
                m2 == BTree_delete_recursive(m1, At(n.children, idx), k)
            IN  IF m2.raised THEN inner
                ELSE IF Len(m2.h[At(m2.h[node].children, idx)].keys) < min_keys
                THEN Append(inner, [h |-> m2.h, parent |-> node, child_idx |-> idx])
                ELSE inner
    IN
    IF key_idx # -1
    THEN IF BTree_is_leaf(h, node) THEN <<>>
         ELSE LET pred == BTree_get_predecessor(h, node, key_idx) IN
              IF pred.raised THEN <<>>
              ELSE below([m EXCEPT !.h[node].keys = ListSet(n.keys, key_idx, pred.key)],
                         key_idx, pred.key)
    ELSE IF BTree_is_leaf(h, node) THEN <<>>
         ELSE LET child_idx == FirstGreater(n.keys, key) IN
              IF ~InRange(n.children, child_idx) THEN <<>>
              ELSE below(m, child_idx, key)

\* The repair calls of BPlusTree._delete_internal(node, key), in call
\* order: each one precedes the recursion into the child.
RECURSIVE BPlusTree_delete_repairs(_, _, _)
BPlusTree_delete_repairs(m, node, key) ==
    IF m.raised THEN <<>>
    ELSE
    LET h == m.h
        n == h[node]
    IN
    IF BPlusTree_is_leaf(h, node) THEN <<>>
    ELSE LET child_idx == FirstGreater(n.keys, key) IN
         IF ~InRange(n.children, child_idx) THEN <<>>
         ELSE
         LET fix == Len(h[At(n.children, child_idx)].keys) <= min_keys
             m1 == IF fix THEN BPlusTree_fix_child_underflow(m, node, child_idx)
                   ELSE m
             idx2 == IF fix THEN FirstGreater(m1.h[node].keys, key) ELSE child_idx
             here == IF fix THEN <<[h |-> h, parent |-> node, child_idx |-> child_idx]>>
                     ELSE <<>>
         IN  IF m1.raised \/ ~InRange(m1.h[node].children, idx2) THEN here
             ELSE here \o BPlusTree_delete_repairs(m1, At(m1.h[node].children, idx2), key)

\* The repair calls of tree.delete(key) on the tree (h, r): none when the
\* existence check fails.
DeleteRepairs(h, r, key) ==
    IF ~Search(h, r, key).found THEN <<>>
    ELSE IF variant = "BTree" THEN BTree_delete_repairs(Running(h), r, key)
    ELSE BPlusTree_delete_repairs(Running(h), r, key)

\* The nodes after the repair call rep.
Repaired(rep) ==
    IF variant = "BTree"
    THEN BTree_handle_underflow(Running(rep.h), rep.parent, rep.child_idx).h
    ELSE BPlusTree_fix_child_underflow(Running(rep.h), rep.parent, rep.child_idx).h

\* What a repair did, read off the nodes before (h) and after (h2).
BorrowedFromLeft(h, h2, parent, child_idx) ==
    /\ child_idx > 0
    /\ h2[parent].children = h[parent].children
    /\ LET child == At(h[parent].children, child_idx)
           left == At(h[parent].children, child_idx - 1)
       IN  /\ Len(h2[left].keys) = Len(h[left].keys) - 1
           /\ Len(h2[child].keys) = Len(h[child].keys) + 1

BorrowedFromRight(h, h2, parent, child_idx) ==
    /\ child_idx < Len(h[parent].children) - 1
    /\ h2[parent].children = h[parent].children
    /\ LET child == At(h[parent].children, child_idx)
           right == At(h[parent].children, child_idx + 1)
       IN  /\ Len(h2[right].keys) = Len(h[right].keys) - 1
           /\ Len(h2[child].keys) = Len(h[child].keys) + 1

MergedWithLeft(h, h2, parent, child_idx) ==
    /\ child_idx > 0
    /\ h2[parent].children = ListRemove(h[parent].children, child_idx)
    /\ LET child == At(h[parent].children, child_idx)
           left == At(h[parent].children, child_idx - 1)
       IN  /\ KeysOf(h, left) \cup KeysOf(h, child) \subseteq KeysOf(h2, left)
           /\ Len(h2[left].keys) >= Len(h[left].keys) + Len(h[child].keys)

MergedWithRight(h, h2, parent, child_idx) ==
    /\ child_idx < Len(h[parent].children) - 1
    /\ h2[parent].children = ListRemove(h[parent].children, child_idx + 1)
    /\ LET child == At(h[parent].children, child_idx)
           right == At(h[parent].children, child_idx + 1)
       IN  /\ KeysOf(h, child) \cup KeysOf(h, right) \subseteq KeysOf(h2, child)
           /\ Len(h2[child].keys) >= Len(h[child].keys) + Len(h[right].keys)

\* C25: in both variants a repair borrows from the left sibling if that
\* one holds more than min_keys keys, otherwise from the right sibling if
\* that one does; only when neither can lend does it merge, with the left
\* sibling when there is one and else with the right sibling; and the
\* repair leaves the stored key set as it was.
C25_RepairPreference ==
    Completed =>
        \A key \in VariantKeys :
            LET reps == DeleteRepairs(heap, root, key) IN
            \A i \in 1..Len(reps) :
                LET h == reps[i].h
                    parent == reps[i].parent
                    child_idx == reps[i].child_idx
                    ch == h[parent].children
                    h2 == Repaired(reps[i])
                    leftLends == child_idx > 0
                                 /\ Len(h[At(ch, child_idx - 1)].keys) > min_keys
                    rightLends == child_idx < Len(ch) - 1
                                  /\ Len(h[At(ch, child_idx + 1)].keys) > min_keys
                IN  /\ IF leftLends THEN BorrowedFromLeft(h, h2, parent, child_idx)
                       ELSE IF rightLends THEN BorrowedFromRight(h, h2, parent, child_idx)
                       ELSE IF child_idx > 0 THEN MergedWithLeft(h, h2, parent, child_idx)
                       ELSE MergedWithRight(h, h2, parent, child_idx)
                    /\ StoredKeys(h2, root) = StoredKeys(h, root)

\* C25 witness: a stored key whose delete repairs at two levels.
C25_Witness ==
    \E key \in VariantKeys : Len(DeleteRepairs(heap, root, key)) >= 2

\* The UNDERFLOW event that a repair call emits first, for the child it is
\* about to repair.
UnderflowEvent(rep) ==
    LET child == At(rep.h[rep.parent].children, rep.child_idx)
    IN  [type |-> "underflow", node_id |-> child,
         info |-> [num_keys |-> Len(rep.h[child].keys), min_keys |-> min_keys]]

\* C26: in both variants an UNDERFLOW event is emitted only for a node that
\* holds fewer than min_keys keys at that moment, and a node is borrowed
\* into or merged only when it holds fewer than min_keys keys.
C26_UnderflowOnlyBelowMinimum ==
    Completed =>
        \A key \in VariantKeys :
            LET reps == DeleteRepairs(heap, root, key) IN
            \A i \in 1..Len(reps) :
                LET child == At(reps[i].h[reps[i].parent].children, reps[i].child_idx)
                IN  /\ UnderflowEvent(reps[i]).info.num_keys < min_keys
                    /\ Len(reps[i].h[child].keys) < min_keys

-----------------------------------------------------------------------------
(* Root shrink on delete *)

\* C27: in both variants, between operations a root with zero keys has no
\* children; and a delete that replaces the root does so because the root
\* was emptied with a child left, which becomes the root, the height
\* shrinking by exactly one (a delete that keeps the root keeps the height).
C27_EmptyRootHasNoChildren ==
    Completed =>
        /\ Len(heap[root].keys) = 0 => Len(heap[root].children) = 0
        /\ \A key \in VariantKeys :
              LET d == Delete(heap, root, first_leaf, key) IN
              ~d.raised =>
                /\ Len(d.h[d.root].keys) = 0 => Len(d.h[d.root].children) = 0
                /\ d.root # root =>
                      /\ Len(d.h[root].keys) = 0
                      /\ d.root = At(d.h[root].children, 0)
                      /\ Height(d.h, d.root) = Height(heap, root) - 1
                /\ d.root = root => Height(d.h, d.root) = Height(heap, root)

\* C27 witness: a three-level tree with a key whose delete replaces the root.
C27_Witness ==
    /\ Height(heap, root) = 3
    /\ \E key \in VariantKeys :
          LET d == Delete(heap, root, first_leaf, key)
          IN  ~d.raised /\ d.ret /\ d.root # root

-----------------------------------------------------------------------------
(* The emits of delete(key) for a key that the existence check does not
   find: the tracer when delete returns False. *)

\* BTree.delete, lines 302-308: DELETE_REQUEST, then search(key) on the
\* tree's tracer, then SEARCH_NOT_FOUND.
BTree_delete_absent_trace(tr, h, r, key) ==
    LET tr1 == Tracer_emit(tr, "delete_request", NoNode, [key |-> key])
        tr2 == BTree_search_trace(tr1, h, r, key)
    IN  Tracer_emit(tr2, "search_not_found", NoNode, [key |-> key])

\* BPlusTree._search_with_path: search(key) with the tracer disabled; the
\* tracer is enabled again if it was enabled.
BPlusTree_search_with_path_trace(tr, h, r, key) ==
    LET enabled == tr.enabled
        tr1 == [tr EXCEPT !.enabled = FALSE]
        tr2 == BPlusTree_search_trace(tr1, h, r, key)
    IN  IF enabled THEN [tr2 EXCEPT !.enabled = TRUE] ELSE tr2

\* BPlusTree.delete, lines 297-304
BPlusTree_delete_absent_trace(tr, h, r, key) ==
    LET tr1 == Tracer_emit(tr, "delete_request", NoNode, [key |-> key])
        tr2 == BPlusTree_search_with_path_trace(tr1, h, r, key)
    IN  Tracer_emit(tr2, "search_not_found", NoNode, [key |-> key])

DeleteAbsentTrace(tr, h, r, key) ==
    IF variant = "BTree" THEN BTree_delete_absent_trace(tr, h, r, key)
    ELSE BPlusTree_delete_absent_trace(tr, h, r, key)

\* The events that a call appended to the log of tr, given the tracer after.
Appended(tr, after) == SubSeq(after.events, Len(tr.events) + 1, Len(after.events))

\* C28: in both variants, after delete(k) of a key that is not found, with
\* tracing enabled, the log holds no visit_node and no compare_key event
\* of the existence probe; and delete leaves the enabled flag as it was,
\* enabled or disabled.
C28_DeleteProbeNotTraced ==
    Completed =>
        \A key \in KeySet : \A tr \in TracersBefore :
            ~Search(heap, root, key).found =>
                LET after == DeleteAbsentTrace(tr, heap, root, key)
                    off == [tr EXCEPT !.enabled = FALSE]
                    new == Appended(tr, after)
                IN  /\ \A i \in 1..Len(new) :
                          new[i].type \notin {"visit_node", "compare_key"}
                    /\ after.enabled = tr.enabled
                    /\ DeleteAbsentTrace(off, heap, root, key).enabled = off.enabled

-----------------------------------------------------------------------------
(* Metrics: src/core/metrics.py, and the read ticks of search *)

\* Metrics.__init__ (the two access counters)
Metrics_init == [reads |-> 0, writes |-> 0]

\* Metrics.tick_node_access: one read
Metrics_tick_node_access(mt) == [mt EXCEPT !.reads = @ + 1]

\* Mutant for C29: the tick is made only at the node where the search ends.
RECURSIVE BTree_search_metrics_last_only(_, _, _, _)
BTree_search_metrics_last_only(mt, h, node, key) ==
    LET child_index == FirstGreater(h[node].keys, key)
    IN  IF BTree_scan(h[node].keys, key) # -1 \/ BTree_is_leaf(h, node)
        THEN Metrics_tick_node_access(mt)
        ELSE IF ~InRange(h[node].children, child_index) THEN mt
        ELSE BTree_search_metrics_last_only(mt, h, At(h[node].children, child_index), key)

\* BTree.search with its metrics calls: the metrics when search returns.
RECURSIVE BTree_search_metrics(_, _, _, _)
BTree_search_metrics(mt, h, node, key) ==
    LET mt1 == Metrics_tick_node_access(mt)
        child_index == FirstGreater(h[node].keys, key)
    IN  IF BTree_scan(h[node].keys, key) # -1 \/ BTree_is_leaf(h, node) THEN mt1
        ELSE IF ~InRange(h[node].children, child_index) THEN mt1
        ELSE BTree_search_metrics(mt1, h, At(h[node].children, child_index), key)

\* BPlusTree.search with its metrics calls
RECURSIVE BPlusTree_search_metrics(_, _, _, _)
BPlusTree_search_metrics(mt, h, node, key) ==
    LET mt1 == Metrics_tick_node_access(mt)
        child_index == FirstGreater(h[node].keys, key)
    IN  IF BPlusTree_is_leaf(h, node) THEN mt1
        ELSE IF ~InRange(h[node].children, child_index) THEN mt1
        ELSE BPlusTree_search_metrics(mt1, h, At(h[node].children, child_index), key)

SearchMetrics(mt, h, r, key) ==
    IF variant = "BTree" THEN BTree_search_metrics(mt, h, r, key)
    ELSE BPlusTree_search_metrics(mt, h, r, key)

\* C29: in both variants, for every search call with tracing enabled, the
\* number of visit_node events emitted, the increase of the read counter
\* and the length of the returned path are equal; path lists the visited
\* node ids from the root downward; and the last event emitted is the
\* call's only search_found or search_not_found event, matching the
\* returned found flag.
C29_SearchAccounting ==
    Completed =>
        \A key \in KeySet \cup {0} : \A tr \in TracersBefore :
            LET result == Search(heap, root, key)
                new == Appended(tr, SearchTrace(tr, heap, root, key))
                visits == SelectSeq(new, LAMBDA e : e.type = "visit_node")
                ends == SelectSeq(new, LAMBDA e :
                            e.type \in {"search_found", "search_not_found"})
                reads == SearchMetrics(Metrics_init, heap, root, key).reads
                            - Metrics_init.reads
                path == result.path
            IN  /\ Len(visits) = reads
                /\ reads = Len(path)
                /\ path = [i \in 1..Len(visits) |-> visits[i].node_id]
                /\ path[1] = root
                /\ \A i \in 1..(Len(path) - 1) :
                      \E c \in 1..Len(heap[path[i]].children) :
                          heap[path[i]].children[c] = path[i + 1]
                /\ Len(ends) = 1
                /\ new[Len(new)] = ends[1]
                /\ ends[1].type = IF result.found THEN "search_found"
                                  ELSE "search_not_found"

\* C29 witness: a search that goes down three levels and finds its key.
C29_Witness ==
    \E key \in KeySet :
        LET result == Search(heap, root, key)
        IN  result.found /\ Len(result.path) = 3

-----------------------------------------------------------------------------
(* The validators on trees put together by hand, as build_scenario of
   reproduce_bug_v2.py does: node objects are created, their keys and
   children are assigned, and the validator is called on the result. *)

\* The keys assigned, and how many nodes may differ from the scenario.
BuiltKeys == 0..8
MaxOverwrites == 2

\* validate_btree(tree): "True" when it returns, "ValidationError" when
\* one of its checks raises.  The range check looks at the keys of the
\* child itself.
validate_btree(h, r) ==
    LET nodes == Subtree(h, r)
        child_in_range(n, c) ==
            LET keys == h[n].keys
                i == c - 1
            IN  \A child_key \in KeysOf(h, h[n].children[c]) :
                    IF i < Len(keys)
                    THEN /\ i > 0 => ~(child_key < keys[i])
                         /\ ~(i < Len(h[n].children) - 1
                                /\ child_key >= keys[i + 1])
                    ELSE ~(Len(keys) > 0 /\ child_key < keys[Len(keys)])
    IN  IF /\ \A n \in nodes : Len(h[n].keys) <= max_keys
           /\ \A n \in nodes : StrictlyIncreasing(h[n].keys)
           /\ \A n \in nodes : \A x \in nodes :
                 n # x => KeysOf(h, n) \cap KeysOf(h, x) = {}
           /\ \A n \in nodes :
                 ~BTree_is_leaf(h, n) =>
                    /\ Len(h[n].children) = Len(h[n].keys) + 1
                    /\ \A c \in 1..Len(h[n].children) : child_in_range(n, c)
           /\ Cardinality(LeafDepths(h, r, 0)) <= 1
        THEN "True"
        ELSE "ValidationError"

\* build_scenario: a tree of three levels that satisfies every invariant.
\* B-Tree: [4]( [2]([1] [3])  [6]([5] [7]) ).
\* B+-Tree: [5]( [3]([1] [3])  [7]([5] [7]) ), the leaves chained.
build_scenario(T) ==
    LET plus == T = "BPlusTree"
        inner(k, a, b) == [keys |-> <<k>>, children |-> <<a, b>>,
                           is_leaf |-> FALSE, next_leaf |-> NoNode]
        leaf(k, nxt) == [keys |-> <<k>>, children |-> <<>>, is_leaf |-> TRUE,
                         next_leaf |-> IF plus THEN nxt ELSE NoNode]
    IN  IF plus
        THEN <<inner(5, 2, 3), inner(3, 4, 5), inner(7, 6, 7),
               leaf(1, 5), leaf(3, 6), leaf(5, 7), leaf(7, NoNode)>>
        ELSE <<inner(4, 2, 3), inner(2, 4, 5), inner(6, 6, 7),
               leaf(1, 5), leaf(3, 6), leaf(5, 7), leaf(7, NoNode)>>

InitBuilt ==
    /\ variant \in Variants
    /\ fanout_n = 3
    /\ heap = build_scenario(variant)
    /\ root = 1
    /\ first_leaf = IF variant = "BPlusTree" THEN 4 ELSE NoNode
    /\ last = [op |-> "build_scenario", key |-> 0, ret |-> FALSE,
               raised |-> FALSE, shrunk |-> FALSE]
    /\ tracer = Tracer_init

\* The nodes whose keys are not the scenario's.
Overwritten == {n \in DOMAIN heap : heap[n].keys # build_scenario(variant)[n].keys}

\* node.keys = [key]
SetKeys(n, key) ==
    /\ Cardinality(Overwritten \cup {n}) <= MaxOverwrites
    /\ heap' = [heap EXCEPT ![n].keys = <<key>>]
    /\ last' = [op |-> "set_keys", key |-> key, ret |-> FALSE,
                raised |-> FALSE, shrunk |-> FALSE]
    /\ UNCHANGED <<variant, fanout_n, root, first_leaf, tracer>>

\* validate_btree(tree) / validate_bplustree(tree)
Validate ==
    /\ last' = [op |-> "validate", key |-> 0,
                ret |-> IF variant = "BTree" THEN validate_btree(heap, root)
                        ELSE validate_bplustree(heap, root, first_leaf),
                raised |-> FALSE, shrunk |-> FALSE]
    /\ UNCHANGED <<variant, fanout_n, heap, root, first_leaf, tracer>>

NextBuilt ==
    \/ \E n \in DOMAIN heap : \E key \in BuiltKeys : SetKeys(n, key)
    \/ Validate

SpecBuilt == InitBuilt /\ [][NextBuilt]_vars

\* Some key under children[i] of a node is outside the node's bounds for
\* that child: B-Tree, any key of the subtree, strictly between keys[i-1]
\* and keys[i]; B+-Tree, any leaf key, at least keys[i-1] and below keys[i].
KeyOutOfRange(h, r) ==
    \E n \in Subtree(h, r) : \E i \in 1..Len(h[n].children) :
        LET under == Subtree(h, h[n].children[i])
            held == IF variant = "BTree" THEN SubtreeKeys(h, h[n].children[i])
                    ELSE UNION {KeysOf(h, x) : x \in {y \in under : h[y].is_leaf}}
        IN  \E k \in held :
               \/ /\ i > 1 /\ i - 1 <= Len(h[n].keys)
                  /\ IF variant = "BTree" THEN k <= h[n].keys[i - 1]
                     ELSE k < h[n].keys[i - 1]
               \/ i <= Len(h[n].keys) /\ k >= h[n].keys[i]

\* C30: the B-Tree validator raises ValidationError for every tree in
\* which some key anywhere in the subtree under children[i] of an internal
\* node is not strictly between keys[i-1] and keys[i], and the B+-Tree
\* validator raises it for every tree with a leaf key outside the bounds
\* set by its ancestors' separators.
C30_ValidatorsRejectOutOfRange ==
    (last.op = "validate" /\ KeyOutOfRange(heap, root))
        => last.ret = "ValidationError"

====
